---- MODULE Spec2Model ----
(***************************************************************************)
(* neuroweave: the batch worker (api/tasks/process_messages.py) and the    *)
(* extraction graph it runs (api/services/extraction): disentangle ->      *)
(* router -> evaluator -> compiler <-> quality_gate.                       *)
(*                                                                         *)
(* Scores are integers in hundredths (0.70 is 70), timestamps are minutes. *)
(* An optional value (Python None or a value) is a sequence of length 0    *)
(* or 1.                                                                   *)
(***************************************************************************)
EXTENDS Integers, Sequences, FiniteSets, TLC

VARIABLES
    pc,                 \* position of the worker / the graph run
    batch_no,           \* number of task invocations started so far
    source_type,        \* argument of process_message_batch
    messages,           \* AgentState.messages
    threads,            \* AgentState.threads
    skip_disentangle,   \* AgentState.skip_disentangle
    classification,     \* AgentState.classification
    article_type,       \* AgentState.article_type
    evaluation,         \* AgentState.evaluation (optional)
    compiled_article,   \* AgentState.compiled_article (optional)
    quality_score,      \* AgentState.quality_score
    retry_count,        \* AgentState.retry_count
    current_thread_idx, \* AgentState.current_thread_idx (0-based)
    response,           \* router_node's local `text` (classifier reply)
    excluded,           \* count returned by filter_consented_messages
    enqueued,           \* store_article.delay calls of this invocation
    task_result,        \* return value of process_message_batch (optional)
    last_node,          \* history: the node that ran last in this run
    evaluator_calls,    \* history: evaluator_node invocations in this run
    compiler_calls,     \* history: compiler_node invocations in this run
    all_failing,        \* history: no quality_gate score of this run passed
    batch,              \* the `messages` argument as the task received it
    consented_users,    \* what get_consented_users returned (optional)
    backend_failed,     \* history: the consent lookup hit a backend error
    input_messages,     \* initial_state["messages"] handed to graph.invoke
    prior_messages,     \* messages of the checkpoint loaded for the thread_id
    checkpoint,         \* saved messages per thread_id of the current second
    retries,            \* self.request.retries of the task execution
    cluster_input,      \* the message list handed to ThreadDisentangler.cluster
    clusters,           \* what cluster returned for it (optional)
    stream,             \* Redis stream of one (server, channel): buffered entries
    counter,            \* Redis counter key of that channel (0: key absent)
    batch_timers,       \* StreamProducer._batch_timers entry of it (optional)
    now,                \* time.time(), in seconds
    coro,               \* frame of each on_message task inside publish
    dispatched,         \* batches handed to process_message_batch.delay
    published,          \* number of publish calls made so far
    restarts,           \* number of producer restarts so far
    store_pc,           \* position of the store_article execution
    store_no,           \* number of store_article executions started so far
    store_args,         \* arguments of the store_article execution
    tx_threads,         \* Thread rows flushed in the open transaction
    tx_articles,        \* Article rows added in the open transaction
    db_threads,         \* committed Thread rows
    db_articles,        \* committed Article rows
    thread_seq,         \* last value of the threads id sequence
    embedding,          \* store_article's local `embedding` (optional)
    embedding_failed,   \* history: the embedding try block raised
    db_before,          \* history: committed rows when the execution began
    store_log,          \* history: outcome of each finished execution
    export_pc,          \* position of the export_dataset execution
    export_no,          \* number of POST /datasets/export requests so far
    article_rows,       \* the Article rows the export query runs over
    pending_exports,    \* DatasetExport rows flushed by a request, uncommitted
    export_jobs,        \* committed DatasetExport rows
    export_queue,       \* export_dataset tasks waiting in the broker
    export_frame,       \* locals of the export_dataset execution
    export_files,       \* export_<id>.jsonl files on disk
    manifest_files,     \* export_<id>.c2pa.json files on disk
    completed,          \* history: export ids whose task logged export_complete
    score_pair,         \* two articles handed to compute_quality_score
    scores,             \* the two scores returned for them (optional)
    discussion,         \* the discussion handed to discussion_to_messages
    discussion_messages, \* the messages returned for it (optional)
    anon_text,          \* the text handed to anonymize
    anon_pass,          \* number of _PATTERNS entries anonymize has gone through
    anon_result,        \* anonymize's local `result`
    redactions          \* anonymize's local `redactions`

vars == <<pc, batch_no, source_type, messages, threads, skip_disentangle,
          classification, article_type, evaluation, compiled_article,
          quality_score, retry_count, current_thread_idx, response, excluded,
          enqueued, task_result, last_node, evaluator_calls, compiler_calls,
          all_failing, batch, consented_users, backend_failed, input_messages,
          prior_messages, checkpoint, retries, cluster_input, clusters, stream, counter,
          batch_timers, now, coro, dispatched, published, restarts,
          store_pc, store_no, store_args, tx_threads, tx_articles, db_threads,
          db_articles, thread_seq, embedding, embedding_failed, db_before,
          store_log, export_pc, export_no, article_rows, pending_exports,
          export_jobs, export_queue, export_frame, export_files,
          manifest_files, completed, score_pair, scores, discussion,
          discussion_messages, anon_text, anon_pass, anon_result,
          redactions>>

(***************************************************************************)
(* Bounds of the model.                                                    *)
(***************************************************************************)
MaxBatches == 2

\* longest message list a thread_id accumulates in the checkpoint store
MaxMessages == 4

(***************************************************************************)
(* Generic helpers.                                                        *)
(***************************************************************************)
None == <<>>
Some(x) == <<x>>

Min(a, b) == IF a < b THEN a ELSE b
Abs(x) == IF x < 0 THEN -x ELSE x

RECURSIVE FlattenSeq(_)
FlattenSeq(ss) == IF ss = <<>> THEN <<>> ELSE Head(ss) \o FlattenSeq(Tail(ss))

(***************************************************************************)
(* Batches: messages as the producer / the fetcher hand them to the task.  *)
(* The text of a message is represented by what the pipeline reads of it:  *)
(* its topic (what the embedding encodes), whether it holds a code fence   *)
(* and whether it holds PII the anonymizer redacts.                        *)
(***************************************************************************)
Msg(id, author, ts, reply_to, mentions, topic, code, pii) ==
    [id |-> id, author_hash |-> author, timestamp |-> ts, reply_to |-> reply_to,
     mentions |-> mentions, topic |-> topic, code |-> code, pii |-> pii]

\* reply_to = 0 is None
BatchQuestion ==
    << Msg(1, "a", 0, 0, {}, 1, TRUE, TRUE),
       Msg(2, "b", 2, 1, {"a"}, 1, TRUE, FALSE),
       Msg(3, "a", 4, 2, {}, 2, FALSE, FALSE) >>

BatchMixed ==
    << Msg(1, "a", 0, 0, {}, 2, FALSE, FALSE),
       Msg(2, "b", 1, 0, {}, 3, FALSE, TRUE),
       Msg(3, "c", 300, 0, {}, 1, TRUE, FALSE) >>

BatchSingle == << Msg(1, "b", 0, 0, {}, 1, FALSE, TRUE) >>

Batches == {BatchQuestion, BatchMixed, BatchSingle}

SourceTypes == {"discord", "github"}

Authors == {"a", "b", "c"}

\* the user_hash rows with active consent the registry can hold for a server
ConsentSets == {{}, {"a"}, {"a", "b"}, {"a", "b", "c"}}

(***************************************************************************)
(* Consent filter and anonymizer, as the worker uses them.                 *)
(***************************************************************************)
\* variant: a failed lookup lets every author through
get_consented_users_fail_open(rows, backend_ok) ==
    IF backend_ok THEN rows ELSE Authors

\* rows: the registry's answer; backend_ok = FALSE: the query raised
get_consented_users(rows, backend_ok) ==
    IF backend_ok THEN rows ELSE {}

\* variant: authors without consent are counted but not dropped
filter_consented_messages_keep_all(msgs, consented) ==
    IF consented = {}
    THEN << <<>>, Len(msgs) >>
    ELSE LET filtered == SelectSeq(msgs, LAMBDA m : m.author_hash \in consented)
         IN  << msgs, Len(msgs) - Len(filtered) >>

\* <<filtered, excluded>>; consented is the set get_consented_users returned
filter_consented_messages(msgs, consented) ==
    IF consented = {}
    THEN << <<>>, Len(msgs) >>
    ELSE LET filtered == SelectSeq(msgs, LAMBDA m : m.author_hash \in consented)
         IN  << filtered, Len(msgs) - Len(filtered) >>

\* the redacted text holds no PII any more; topic and code fence stay
anonymize(m) == [m EXCEPT !.pii = FALSE]

(***************************************************************************)
(* DisentanglementEngine.                                                  *)
(***************************************************************************)
SIMILARITY_THRESHOLD == 45
TEMPORAL_WINDOW == 240
SAME_AUTHOR_BOOST == 25
ERROR_CODE_BOOST == 20
SAME_AUTHOR_WINDOW == 10

\* cosine similarity of the embeddings of two texts, by topic
cosine_similarity(t1, t2) ==
    IF t1 = t2 THEN 90 ELSE IF Abs(t1 - t2) = 1 THEN 50 ELSE 10

\* variant: reply_to and mentions do not link, only the boosted similarity
should_link_similarity_only(msgs, i, j) ==
    LET msg_i == msgs[i]
        msg_j == msgs[j]
        time_delta == Abs(msg_i.timestamp - msg_j.timestamp)
        base == cosine_similarity(msg_i.topic, msg_j.topic)
        boosted1 == IF msg_i.author_hash = msg_j.author_hash
                       /\ time_delta <= SAME_AUTHOR_WINDOW
                    THEN base + SAME_AUTHOR_BOOST ELSE base
        similarity == IF msg_i.code /\ msg_j.code
                      THEN boosted1 + ERROR_CODE_BOOST ELSE boosted1
    IN  IF time_delta > TEMPORAL_WINDOW THEN FALSE
        ELSE similarity >= SIMILARITY_THRESHOLD

\* variant: the temporal gate comes after the explicit links
should_link_gate_after_explicit(msgs, i, j) ==
    LET msg_i == msgs[i]
        msg_j == msgs[j]
        time_delta == Abs(msg_i.timestamp - msg_j.timestamp)
        base == cosine_similarity(msg_i.topic, msg_j.topic)
        boosted1 == IF msg_i.author_hash = msg_j.author_hash
                       /\ time_delta <= SAME_AUTHOR_WINDOW
                    THEN base + SAME_AUTHOR_BOOST ELSE base
        similarity == IF msg_i.code /\ msg_j.code
                      THEN boosted1 + ERROR_CODE_BOOST ELSE boosted1
    IN  IF msg_j.reply_to # 0 /\ msg_j.reply_to = msg_i.id THEN TRUE
        ELSE IF msg_i.reply_to # 0 /\ msg_i.reply_to = msg_j.id THEN TRUE
        ELSE IF msg_i.author_hash \in msg_j.mentions THEN TRUE
        ELSE IF msg_j.author_hash \in msg_i.mentions THEN TRUE
        ELSE IF time_delta > TEMPORAL_WINDOW THEN FALSE
        ELSE similarity >= SIMILARITY_THRESHOLD

should_link(msgs, i, j) ==
    LET msg_i == msgs[i]
        msg_j == msgs[j]
        time_delta == Abs(msg_i.timestamp - msg_j.timestamp)
        base == cosine_similarity(msg_i.topic, msg_j.topic)
        boosted1 == IF msg_i.author_hash = msg_j.author_hash
                       /\ time_delta <= SAME_AUTHOR_WINDOW
                    THEN base + SAME_AUTHOR_BOOST ELSE base
        similarity == IF msg_i.code /\ msg_j.code
                      THEN boosted1 + ERROR_CODE_BOOST ELSE boosted1
    IN  IF time_delta > TEMPORAL_WINDOW THEN FALSE
        ELSE IF msg_j.reply_to # 0 /\ msg_j.reply_to = msg_i.id THEN TRUE
        ELSE IF msg_i.reply_to # 0 /\ msg_i.reply_to = msg_j.id THEN TRUE
        ELSE IF msg_i.author_hash \in msg_j.mentions THEN TRUE
        ELSE IF msg_j.author_hash \in msg_i.mentions THEN TRUE
        ELSE similarity >= SIMILARITY_THRESHOLD

\* adjacency[i][j], set for i < j and mirrored
adjacency(msgs, i, j) ==
    IF i < j THEN should_link(msgs, i, j)
    ELSE IF j < i THEN should_link(msgs, j, i)
    ELSE FALSE

\* the neighbours of node not yet visited, in index order
RECURSIVE Neighbors(_, _, _, _)
Neighbors(msgs, node, visited, k) ==
    IF k > Len(msgs) THEN <<>>
    ELSE (IF adjacency(msgs, node, k) /\ k \notin visited THEN <<k>> ELSE <<>>)
         \o Neighbors(msgs, node, visited, k + 1)

\* the while-queue loop of cluster: <<component, visited>>
RECURSIVE bfs(_, _, _, _)
bfs(msgs, queue, visited, component) ==
    IF queue = <<>> THEN <<component, visited>>
    ELSE LET node == Head(queue)
         IN  IF node \in visited
             THEN bfs(msgs, Tail(queue), visited, component)
             ELSE bfs(msgs,
                      Tail(queue) \o Neighbors(msgs, node, visited \cup {node}, 1),
                      visited \cup {node},
                      Append(component, node))

\* component.sort(key=timestamp): stable insertion of the last element
RECURSIVE sort_by_timestamp(_, _)
sort_by_timestamp(msgs, component) ==
    IF component = <<>> THEN <<>>
    ELSE LET n == Len(component)
             x == component[n]
             rest == sort_by_timestamp(msgs, SubSeq(component, 1, n - 1))
             before == SelectSeq(rest, LAMBDA y : msgs[y].timestamp <= msgs[x].timestamp)
             after == SelectSeq(rest, LAMBDA y : msgs[y].timestamp > msgs[x].timestamp)
         IN  before \o <<x>> \o after

\* the for-start loop of cluster
RECURSIVE components(_, _, _)
components(msgs, start, visited) ==
    IF start > Len(msgs) THEN <<>>
    ELSE IF start \in visited THEN components(msgs, start + 1, visited)
    ELSE LET r == bfs(msgs, <<start>>, visited, <<>>)
             sorted == sort_by_timestamp(msgs, r[1])
         IN  << [k \in 1..Len(sorted) |-> msgs[sorted[k]]] >>
             \o components(msgs, start + 1, r[2])

\* variant: messages linked to no other message are left out
cluster_linked_only(msgs) ==
    IF msgs = <<>> THEN <<>>
    ELSE SelectSeq(components(msgs, 1, {}), LAMBDA t : Len(t) >= 2)

cluster(msgs) ==
    IF msgs = <<>> THEN <<>>
    ELSE IF Len(msgs) = 1 THEN <<msgs>>
    ELSE components(msgs, 1, {})

(***************************************************************************)
(* disentangle_node (graph.py).                                            *)
(***************************************************************************)
ThreadMessage(m) ==
    [author_hash |-> m.author_hash, timestamp |-> m.timestamp,
     has_code |-> m.code, has_mention |-> (m.mentions # {}),
     reply_to |-> m.reply_to, topic |-> m.topic, pii |-> m.pii]

thread_dict(thread) == [k \in 1..Len(thread) |-> ThreadMessage(thread[k])]

\* thread_dicts.sort(key=len, reverse=True), a stable sort
RECURSIVE sort_by_len_desc(_)
sort_by_len_desc(ts) ==
    IF ts = <<>> THEN <<>>
    ELSE LET n == Len(ts)
             x == ts[n]
             rest == sort_by_len_desc(SubSeq(ts, 1, n - 1))
             before == SelectSeq(rest, LAMBDA y : Len(y) >= Len(x))
             after == SelectSeq(rest, LAMBDA y : Len(y) < Len(x))
         IN  before \o <<x>> \o after

\* variant: no catch-all thread when every cluster is a single message
disentangle_threads_no_catch_all(msgs) ==
    LET clustered == cluster(msgs)
        all_dicts == [k \in 1..Len(clustered) |-> thread_dict(clustered[k])]
        multi == SelectSeq(all_dicts, LAMBDA t : Len(t) >= 2)
    IN  sort_by_len_desc(multi)

\* the `threads` the node returns
disentangle_threads(msgs) ==
    LET clustered == cluster(msgs)
        all_dicts == [k \in 1..Len(clustered) |-> thread_dict(clustered[k])]
        multi == SelectSeq(all_dicts, LAMBDA t : Len(t) >= 2)
        all_msgs == FlattenSeq(all_dicts)
        chosen == IF multi # <<>> THEN multi
                  ELSE IF all_msgs # <<>> THEN <<all_msgs>> ELSE <<>>
    IN  sort_by_len_desc(chosen)

(***************************************************************************)
(* router_node (nodes/router.py).  The classifier's reply is the set of    *)
(* words that occur in it; `in` is substring search on the upper-cased     *)
(* text.                                                                   *)
(***************************************************************************)
Words == {"NOISE", "noise", "TECHNICAL", "technical", "TROUBLESHOOTING",
          "QUESTION_ANSWER", "GUIDE", "DISCUSSION_SUMMARY", "unclear"}

Responses == {r \in SUBSET Words : Cardinality(r) <= 1}
             \cup {{"NOISE", "TECHNICAL"}, {"noise", "GUIDE"}, {"unclear", "technical"}}

upper(w) ==
    CASE w = "noise" -> "NOISE"
      [] w = "technical" -> "TECHNICAL"
      [] w = "unclear" -> "UNCLEAR"
      [] OTHER -> w

\* response.content.strip().upper()
upper_text(content) == {upper(w) : w \in content}

\* label in text
contains(text, label) == label \in text

\* the classification router_node returns for an upper-cased text
router_classification(text) ==
    IF contains(text, "NOISE") /\ ~contains(text, "TECHNICAL") THEN "NOISE"
    ELSE IF contains(text, "TECHNICAL") THEN "TECHNICAL"
    ELSE "TECHNICAL"

\* variant: NOISE is not short-circuited
route_after_classification_no_short_circuit(cls) == "evaluator"

route_after_classification(cls) ==
    IF cls = "NOISE" THEN "__end__" ELSE "evaluator"

(***************************************************************************)
(* evaluator_node (nodes/evaluator.py).  The reply either parses to a JSON *)
(* object, whose three flags may be true, false, missing, null or a        *)
(* non-empty string, or does not parse.                                    *)
(***************************************************************************)
JsonValues == {"true", "false", "missing", "null", "string"}

\* parses: json.loads accepts the text; is_dict: what it yields is an object
\* (a reply such as null, [] or "yes" parses to something else)
EvaluatorReplies ==
    [parses : BOOLEAN, is_dict : BOOLEAN, has_solution : JsonValues,
     has_code : JsonValues, is_resolved : JsonValues]

\* data.get on a value that is not a dict: AttributeError, which the except
\* clause of _parse_evaluation does not list
raises_AttributeError(reply) == reply.parses /\ ~reply.is_dict

\* bool(data.get(key, False))
truthy(v) == v \in {"true", "string"}

_parse_evaluation(reply) ==
    IF reply.parses
    THEN [has_solution |-> truthy(reply.has_solution),
          has_code |-> truthy(reply.has_code),
          is_resolved |-> truthy(reply.is_resolved),
          reasoning |-> "parsed"]
    ELSE [has_solution |-> FALSE, has_code |-> FALSE, is_resolved |-> FALSE,
          reasoning |-> "Failed to parse LLM response"]

\* state is the record of the AgentState fields the function reads;
\* article_type "absent" is a state without the key
route_after_evaluation(state) ==
    IF state.evaluation = None THEN "__end__"
    ELSE LET ev == state.evaluation[1]
         IN  IF ev.is_resolved /\ ev.has_code THEN "compiler"
             ELSE IF ev.has_solution /\ ev.has_code THEN "compiler"
             ELSE "__end__"

(***************************************************************************)
(* compiler_node (nodes/compiler.py).  An article is represented by the    *)
(* lengths and counts the scorer reads; confidence is in percent.          *)
(* ExtractedKnowledge has no article_type field, so model_dump() yields a  *)
(* dict without that key ("absent").                                       *)
(***************************************************************************)
SolutionLengths == {40, 250}
SnippetLengths == {0, 60}
Confidences == {50, 100}
TagCounts == {1, 5}
DiagnosisLengths == {0, 100}
SummaryLengths == {0, 20}

ExtractedKnowledge ==
    [article_type : {"absent"}, sol_len : SolutionLengths,
     snippet_len : SnippetLengths, confidence : Confidences,
     ntags : TagCounts, diag_len : DiagnosisLengths,
     summary_len : SummaryLengths]

\* what compiler_node can return as compiled_article: the dumped model, or
\* None when the structured call raised
CompilerOutputs == {None} \cup {Some(a) : a \in ExtractedKnowledge}

(***************************************************************************)
(* Quality gate (nodes/quality_gate.py).                                   *)
(***************************************************************************)
QUALITY_THRESHOLD == 70
MAX_RETRIES == 3

\* article.get("article_type", "troubleshooting").upper()
article_type_upper(a) ==
    CASE a.article_type \in {"absent", "troubleshooting", "TROUBLESHOOTING"} -> "TROUBLESHOOTING"
      [] a.article_type \in {"question_answer", "QUESTION_ANSWER"} -> "QUESTION_ANSWER"
      [] a.article_type \in {"guide", "GUIDE"} -> "GUIDE"
      [] a.article_type \in {"discussion_summary", "DISCUSSION_SUMMARY"} -> "DISCUSSION_SUMMARY"
      [] OTHER -> a.article_type

\* min(confidence * 0.20, 0.20), exact for the multiples of 5 percent used
confidence_points(confidence) == Min((confidence * 20) \div 100, 20)

tag_points(ntags) ==
    IF ntags >= 5 THEN 15 ELSE IF ntags >= 3 THEN 10 ELSE IF ntags >= 1 THEN 5 ELSE 0

summary_points(summary_len) == IF summary_len > 10 THEN 10 ELSE 0

\* variant: the troubleshooting table without the code component
troubleshooting_score_no_code(a) ==
    (IF a.sol_len > 200 THEN 25 ELSE IF a.sol_len > 100 THEN 15
     ELSE IF a.sol_len > 50 THEN 8 ELSE 0)
    + confidence_points(a.confidence)
    + tag_points(a.ntags)
    + (IF a.diag_len > 80 THEN 10 ELSE IF a.diag_len > 30 THEN 5 ELSE 0)
    + summary_points(a.summary_len)

troubleshooting_score(a) ==
    (IF a.sol_len > 200 THEN 25 ELSE IF a.sol_len > 100 THEN 15
     ELSE IF a.sol_len > 50 THEN 8 ELSE 0)
    + (IF a.snippet_len > 50 THEN 20 ELSE IF a.snippet_len > 0 THEN 10 ELSE 0)
    + confidence_points(a.confidence)
    + tag_points(a.ntags)
    + (IF a.diag_len > 80 THEN 10 ELSE IF a.diag_len > 30 THEN 5 ELSE 0)
    + summary_points(a.summary_len)

redistributed_score(a) ==
    (IF a.sol_len > 200 THEN 35 ELSE IF a.sol_len > 100 THEN 25
     ELSE IF a.sol_len > 50 THEN 15 ELSE 0)
    + confidence_points(a.confidence)
    + tag_points(a.ntags)
    + (IF a.diag_len > 80 THEN 15 ELSE IF a.diag_len > 30 THEN 8 ELSE 0)
    + summary_points(a.summary_len)
    + (IF a.snippet_len > 50 THEN 5 ELSE 0)

\* article is optional; round(min(score, 1.0), 2) in hundredths
compute_quality_score(article) ==
    IF article = None THEN 0
    ELSE LET a == article[1]
         IN  IF article_type_upper(a) = "TROUBLESHOOTING"
             THEN Min(troubleshooting_score(a), 100)
             ELSE Min(redistributed_score(a), 100)

\* variant: every attempt counts as a retry, passing or not
gate_retry_count_always(score, retry) == retry + 1

\* variant: a failed attempt is not counted
gate_retry_count_never(score, retry) == retry

\* the retry_count quality_gate_node returns
gate_retry_count(score, retry) ==
    retry + (IF score < QUALITY_THRESHOLD THEN 1 ELSE 0)

\* variant: off-by-one retry bound (one attempt too many)
route_after_quality_inclusive(score, retry) ==
    IF score >= QUALITY_THRESHOLD THEN "__end__"
    ELSE IF retry <= MAX_RETRIES THEN "compiler"
    ELSE "__end__"

\* variant: off-by-one retry bound (one attempt too few)
route_after_quality_early(score, retry) ==
    IF score >= QUALITY_THRESHOLD THEN "__end__"
    ELSE IF retry < MAX_RETRIES - 1 THEN "compiler"
    ELSE "__end__"

\* variant: a score of exactly the threshold does not pass
route_after_quality_strict(score, retry) ==
    IF score > QUALITY_THRESHOLD THEN "__end__"
    ELSE IF retry < MAX_RETRIES THEN "compiler"
    ELSE "__end__"

route_after_quality(score, retry) ==
    IF score >= QUALITY_THRESHOLD THEN "__end__"
    ELSE IF retry < MAX_RETRIES THEN "compiler"
    ELSE "__end__"

(***************************************************************************)
(* The worker task process_message_batch and the graph run inside it.      *)
(***************************************************************************)
\* the literal 0.7 of the "Store successful articles" test
STORE_THRESHOLD == 70

graph_vars == <<messages, threads, skip_disentangle, classification,
                article_type, evaluation, compiled_article, quality_score,
                retry_count, current_thread_idx>>
history_vars == <<last_node, evaluator_calls, compiler_calls, all_failing>>
\* state of the other components of the system, which the worker leaves alone
cluster_vars == <<cluster_input, clusters>>
producer_vars == <<stream, counter, batch_timers, now, coro, dispatched,
                   published, restarts>>
store_vars == <<store_pc, store_no, store_args, tx_threads, tx_articles,
                db_threads, db_articles, thread_seq, embedding,
                embedding_failed, db_before, store_log>>
export_vars == <<export_pc, export_no, article_rows, pending_exports,
                 export_jobs, export_queue, export_frame, export_files,
                 manifest_files, completed>>
storage_vars == <<store_vars, export_vars>>
score_vars == <<score_pair, scores>>
fetcher_vars == <<discussion, discussion_messages>>
anonymizer_vars == <<anon_text, anon_pass, anon_result, redactions>>
function_vars == <<score_vars, fetcher_vars, anonymizer_vars>>
other_vars == <<cluster_vars, producer_vars, storage_vars, function_vars>>
task_vars == <<batch_no, source_type, excluded, enqueued, task_result, batch,
               consented_users, backend_failed, input_messages, prior_messages,
               checkpoint, retries, other_vars>>

\* everything the batch worker and the graph read or write
worker_vars == <<pc, response, graph_vars, history_vars, batch_no, source_type,
                 excluded, enqueued, task_result, batch, consented_users,
                 backend_failed, input_messages, prior_messages, checkpoint,
                 retries>>

\* the checkpoint store holds no state under any thread_id of this second
NoCheckpoint == [st \in SourceTypes |-> <<>>]

\* variant: anonymization only on the private-source path
anonymize_batch_discord_only(msgs, st) ==
    IF st = "discord" THEN [k \in 1..Len(msgs) |-> anonymize(msgs[k])] ELSE msgs

\* the "PII anonymization" loop of process_message_batch
anonymize_batch(msgs, st) == [k \in 1..Len(msgs) |-> anonymize(msgs[k])]

\* variant: the state of an earlier invocation is replaced, not extended
merge_messages_replace(saved, new) == new

\* the reducer of AgentState.messages (operator.add) applied when an
\* invocation finds a state saved under its thread_id
merge_messages(saved, new) == saved \o new

\* variant: an initial_state without quality_score, which then keeps the
\* value saved by the invocation before
InitialState_keep_score(msgs, st) ==
    /\ messages' = msgs
    /\ threads' = <<>>
    /\ skip_disentangle' = (st # "discord")
    /\ classification' = ""
    /\ article_type' = ""
    /\ evaluation' = None
    /\ compiled_article' = None
    /\ quality_score' = quality_score
    /\ retry_count' = 0
    /\ current_thread_idx' = 0

\* initial_state of process_message_batch
InitialState(msgs, st) ==
    /\ messages' = msgs
    /\ threads' = <<>>
    /\ skip_disentangle' = (st # "discord")
    /\ classification' = ""
    /\ article_type' = ""
    /\ evaluation' = None
    /\ compiled_article' = None
    /\ quality_score' = 0
    /\ retry_count' = 0
    /\ current_thread_idx' = 0

ResetHistory ==
    /\ last_node' = ""
    /\ evaluator_calls' = 0
    /\ compiler_calls' = 0
    /\ all_failing' = TRUE

\* the return value; quality_score -1 stands for a result without that key
\* no call of cluster outside the graph is in progress
ClusterIdle ==
    /\ cluster_input = <<>>
    /\ clusters = None

\* store_article as called with nothing: no execution started, empty store
StoreIdle ==
    /\ store_pc = "idle"
    /\ store_no = 0
    /\ store_args = <<>>
    /\ tx_threads = {}
    /\ tx_articles = {}
    /\ db_threads = {}
    /\ db_articles = {}
    /\ thread_seq = 0
    /\ embedding = <<>>
    /\ embedding_failed = FALSE
    /\ db_before = [threads |-> {}, articles |-> {}]
    /\ store_log = <<>>

\* no export was requested
ExportIdle ==
    /\ export_pc = "idle"
    /\ export_no = 0
    /\ article_rows = <<>>
    /\ pending_exports = {}
    /\ export_jobs = {}
    /\ export_queue = {}
    /\ export_frame = <<>>
    /\ export_files = <<>>
    /\ manifest_files = <<>>
    /\ completed = {}

StorageIdle == StoreIdle /\ ExportIdle

\* compute_quality_score was not called outside the graph
ScoreIdle ==
    /\ score_pair = <<>>
    /\ scores = <<>>

\* no discussion is being converted
FetcherIdle ==
    /\ discussion = <<>>
    /\ discussion_messages = <<>>

\* anonymize was not called on a text
AnonymizerIdle ==
    /\ anon_text = <<>>
    /\ anon_pass = 0
    /\ anon_result = <<>>
    /\ redactions = <<>>

FunctionsIdle == ScoreIdle /\ FetcherIdle /\ AnonymizerIdle

\* the on_message tasks of the bot, each publishing one message at a time
Coros == {1, 2}

\* frame of a task that is not inside publish; result is what its last
\* publish returned
IdleFrame ==
    [pc |-> "idle", count |-> 0, first_age |-> 0, raw_messages |-> <<>>,
     sent |-> FALSE,
     failed |-> FALSE, result |-> None]

\* a producer with nothing buffered and no publish in progress
ProducerIdle ==
    /\ stream = <<>>
    /\ counter = 0
    /\ batch_timers = None
    /\ now = 0
    /\ coro = [c \in Coros |-> IdleFrame]
    /\ dispatched = <<>>
    /\ published = 0
    /\ restarts = 0

TaskResult(cls, reason, quality) ==
    [classification |-> cls, reason |-> reason, quality_score |-> quality]

WorkerInit ==
    /\ pc = "idle"
    /\ batch_no = 0
    /\ source_type = "discord"
    /\ messages = <<>>
    /\ threads = <<>>
    /\ skip_disentangle = FALSE
    /\ classification = ""
    /\ article_type = ""
    /\ evaluation = None
    /\ compiled_article = None
    /\ quality_score = 0
    /\ retry_count = 0
    /\ current_thread_idx = 0
    /\ response = {}
    /\ excluded = 0
    /\ enqueued = <<>>
    /\ task_result = None
    /\ last_node = ""
    /\ evaluator_calls = 0
    /\ compiler_calls = 0
    /\ all_failing = TRUE
    /\ batch = <<>>
    /\ consented_users = None
    /\ backend_failed = FALSE
    /\ input_messages = <<>>
    /\ prior_messages = <<>>
    /\ checkpoint = NoCheckpoint
    /\ retries = 0

Init ==
    /\ WorkerInit
    /\ ClusterIdle
    /\ ProducerIdle
    /\ StorageIdle
    /\ FunctionsIdle

\* process_message_batch up to graph.invoke: the batch has no consented
\* message and the task returns SKIPPED
StartBatchSkipped ==
    /\ pc \in {"idle", "done", "failed", "retry"}
    /\ batch_no < MaxBatches
    /\ \E b \in Batches, rows \in ConsentSets, backend_ok \in BOOLEAN :
          LET consented == get_consented_users(rows, backend_ok)
              f == filter_consented_messages(b, consented)
          IN  /\ f[1] = <<>>
              \* a retry runs the task again with the arguments it had
              /\ (pc = "retry" => b = batch /\ source_type = "discord")
              /\ excluded' = f[2]
              /\ batch' = b
              /\ consented_users' = Some(consented)
              /\ backend_failed' = ~backend_ok
    /\ \E same_second \in BOOLEAN :
          \* a retry starts default_retry_delay (60 s) later
          /\ (pc = "retry" => ~same_second)
          /\ checkpoint' = IF same_second THEN checkpoint ELSE NoCheckpoint
    /\ retries' = IF pc = "retry" THEN retries ELSE 0
    /\ source_type' = "discord"
    /\ batch_no' = batch_no + 1
    /\ InitialState(<<>>, "discord")
    /\ input_messages' = <<>>
    /\ prior_messages' = <<>>
    /\ ResetHistory
    /\ response' = {}
    /\ enqueued' = <<>>
    /\ task_result' = Some(TaskResult("SKIPPED", "no_consented_messages", -1))
    /\ pc' = "done"
    /\ UNCHANGED other_vars

\* process_message_batch up to graph.invoke: consent filter (discord only),
\* anonymization, initial state
StartBatch ==
    /\ pc \in {"idle", "done", "failed", "retry"}
    /\ batch_no < MaxBatches
    /\ \E b \in Batches, st \in SourceTypes, rows \in ConsentSets,
          backend_ok \in BOOLEAN, same_second \in BOOLEAN :
          LET consented == get_consented_users(rows, backend_ok)
              f == IF st = "discord" THEN filter_consented_messages(b, consented)
                   ELSE <<b, 0>>
              kept == f[1]
              new == anonymize_batch(kept, st)
              \* thread_id = batch_<source_type>_<channel_id>_<int(time.time())>
              saved == IF same_second THEN checkpoint ELSE NoCheckpoint
              merged == merge_messages(saved[st], new)
          IN  /\ (st = "discord" => kept # <<>>)
              /\ Len(merged) <= MaxMessages
              \* a retry runs the task again with the arguments it had,
              \* default_retry_delay (60 s) later
              /\ (pc = "retry" => b = batch /\ st = source_type /\ ~same_second)
              \* the registry is not read for a public source
              /\ (st # "discord" => rows = {} /\ backend_ok)
              /\ excluded' = f[2]
              /\ source_type' = st
              /\ batch' = b
              /\ consented_users' = IF st = "discord" THEN Some(consented) ELSE None
              /\ backend_failed' = ~backend_ok
              /\ input_messages' = new
              /\ prior_messages' = saved[st]
              /\ InitialState(merged, st)
              /\ checkpoint' = [saved EXCEPT ![st] = merged]
    /\ batch_no' = batch_no + 1
    /\ retries' = IF pc = "retry" THEN retries ELSE 0
    /\ ResetHistory
    /\ response' = {}
    /\ enqueued' = <<>>
    /\ task_result' = None
    /\ pc' = "disentangle"
    /\ UNCHANGED other_vars

DisentangleNode ==
    /\ pc = "disentangle"
    /\ threads' = disentangle_threads(messages)
    /\ current_thread_idx' = 0
    /\ last_node' = "disentangle"
    /\ pc' = "router"
    /\ UNCHANGED <<messages, skip_disentangle, classification, article_type,
                   evaluation, compiled_article, quality_score, retry_count,
                   response, evaluator_calls, compiler_calls, all_failing>>
    /\ UNCHANGED task_vars

\* threads[current_thread_idx] exists: batches are never empty
RouterNode ==
    /\ pc = "router"
    /\ current_thread_idx + 1 \in DOMAIN threads
    /\ \E content \in Responses :
          /\ response' = upper_text(content)
          /\ classification' = router_classification(upper_text(content))
    /\ last_node' = "router"
    /\ pc' = "route_after_classification"
    /\ UNCHANGED <<messages, threads, skip_disentangle, article_type,
                   evaluation, compiled_article, quality_score, retry_count,
                   current_thread_idx, evaluator_calls, compiler_calls,
                   all_failing>>
    /\ UNCHANGED task_vars

RouteAfterClassification ==
    /\ pc = "route_after_classification"
    /\ pc' = IF route_after_classification(classification) = "evaluator"
             THEN "evaluator" ELSE "end"
    /\ response' = {}
    /\ UNCHANGED graph_vars
    /\ UNCHANGED history_vars
    /\ UNCHANGED task_vars

EvaluatorNode ==
    /\ pc = "evaluator"
    /\ current_thread_idx + 1 \in DOMAIN threads
    /\ \E reply \in EvaluatorReplies :
          /\ ~raises_AttributeError(reply)
          /\ evaluation' = Some(_parse_evaluation(reply))
    /\ last_node' = "evaluator"
    /\ evaluator_calls' = evaluator_calls + 1
    /\ pc' = "route_after_evaluation"
    /\ UNCHANGED <<messages, threads, skip_disentangle, classification,
                   article_type, compiled_article, quality_score, retry_count,
                   current_thread_idx, response, compiler_calls, all_failing>>
    /\ UNCHANGED task_vars

\* evaluator_node when _parse_evaluation raises: the exception leaves the
\* node and graph.invoke
EvaluatorNodeRaises ==
    /\ pc = "evaluator"
    /\ current_thread_idx + 1 \in DOMAIN threads
    /\ \E reply \in EvaluatorReplies : raises_AttributeError(reply)
    /\ last_node' = "evaluator"
    /\ evaluator_calls' = evaluator_calls + 1
    /\ pc' = "raised"
    /\ UNCHANGED <<graph_vars, response, compiler_calls, all_failing>>
    /\ UNCHANGED task_vars

\* max_retries of the task decorator
max_retries == 3

\* except Exception as exc: raise self.retry(exc=exc).  retry re-queues the
\* task with the same arguments, or re-raises once max_retries is used up
HandleException ==
    /\ pc = "raised"
    /\ IF retries < max_retries
       THEN pc' = "retry" /\ retries' = retries + 1
       ELSE pc' = "failed" /\ retries' = retries
    /\ task_result' = None
    /\ UNCHANGED <<graph_vars, history_vars, response, batch_no, source_type,
                   excluded, enqueued, batch, consented_users, backend_failed,
                   input_messages, prior_messages, checkpoint, other_vars>>

RouteAfterEvaluation ==
    /\ pc = "route_after_evaluation"
    /\ pc' = IF route_after_evaluation([evaluation |-> evaluation,
                                        article_type |-> article_type]) = "compiler"
             THEN "compiler" ELSE "end"
    /\ UNCHANGED graph_vars
    /\ UNCHANGED history_vars
    /\ UNCHANGED task_vars
    /\ UNCHANGED response

CompilerNode ==
    /\ pc = "compiler"
    /\ current_thread_idx + 1 \in DOMAIN threads
    /\ \E compiled \in CompilerOutputs : compiled_article' = compiled
    /\ last_node' = "compiler"
    /\ compiler_calls' = compiler_calls + 1
    /\ pc' = "quality_gate"
    /\ UNCHANGED <<messages, threads, skip_disentangle, classification,
                   article_type, evaluation, quality_score, retry_count,
                   current_thread_idx, response, evaluator_calls, all_failing>>
    /\ UNCHANGED task_vars

QualityGateNode ==
    /\ pc = "quality_gate"
    /\ LET score == compute_quality_score(compiled_article)
       IN  /\ quality_score' = score
           /\ retry_count' = gate_retry_count(score, retry_count)
           /\ all_failing' = (all_failing /\ score < QUALITY_THRESHOLD)
    /\ last_node' = "quality_gate"
    /\ pc' = "route_after_quality"
    /\ UNCHANGED <<messages, threads, skip_disentangle, classification,
                   article_type, evaluation, compiled_article,
                   current_thread_idx, response, evaluator_calls,
                   compiler_calls>>
    /\ UNCHANGED task_vars

RouteAfterQuality ==
    /\ pc = "route_after_quality"
    /\ pc' = IF route_after_quality(quality_score, retry_count) = "compiler"
             THEN "compiler" ELSE "end"
    /\ UNCHANGED graph_vars
    /\ UNCHANGED history_vars
    /\ UNCHANGED task_vars
    /\ UNCHANGED response

\* variant: a score of exactly 0.70 is not stored
should_store_strict(quality, article) ==
    quality > STORE_THRESHOLD /\ article # None

\* the condition of "Store successful articles"
should_store(quality, article) ==
    quality >= STORE_THRESHOLD /\ article # None

\* process_message_batch after graph.invoke returned
FinishBatch ==
    /\ pc = "end"
    /\ enqueued' = IF should_store(quality_score, compiled_article)
                   THEN Append(enqueued, [article_data |-> compiled_article[1],
                                          quality_score |-> quality_score,
                                          source_type |-> source_type])
                   ELSE enqueued
    /\ task_result' = Some(TaskResult(classification, "", quality_score))
    /\ pc' = "done"
    /\ UNCHANGED graph_vars
    /\ UNCHANGED history_vars
    /\ UNCHANGED <<batch_no, source_type, excluded, response, batch,
                   consented_users, backend_failed, input_messages,
                   prior_messages, checkpoint, retries, other_vars>>

Next ==
    \/ StartBatchSkipped
    \/ StartBatch
    \/ DisentangleNode
    \/ RouterNode
    \/ RouteAfterClassification
    \/ EvaluatorNode
    \/ EvaluatorNodeRaises
    \/ HandleException
    \/ RouteAfterEvaluation
    \/ CompilerNode
    \/ QualityGateNode
    \/ RouteAfterQuality
    \/ FinishBatch

Spec == Init /\ [][Next]_vars

TypeOK ==
    /\ pc \in {"idle", "disentangle", "router", "route_after_classification",
               "evaluator", "route_after_evaluation", "compiler",
               "quality_gate", "route_after_quality", "end", "done",
               "raised", "retry", "failed"}
    /\ retries \in 0..max_retries
    /\ batch_no \in 0..(MaxBatches + 1)
    /\ retry_count \in Nat
    /\ quality_score \in 0..100

(***************************************************************************)
(* route_after_evaluation on its own, as the unit tests call it: the state *)
(* handed to the function is drawn from every article type (also a state   *)
(* without the key) and every evaluation (also none).                      *)
(***************************************************************************)
ArticleTypeInputs == {"absent", "", "TROUBLESHOOTING", "QUESTION_ANSWER",
                      "GUIDE", "DISCUSSION_SUMMARY"}

EvaluationInputs ==
    {None} \cup {Some(_parse_evaluation(r)) :
                    r \in {x \in EvaluatorReplies : ~raises_AttributeError(x)}}

InitGate ==
    /\ pc = "route_after_evaluation"
    /\ article_type \in ArticleTypeInputs
    /\ evaluation \in EvaluationInputs
    /\ batch_no = 1
    /\ source_type = "discord"
    /\ messages = <<>>
    /\ threads = <<>>
    /\ skip_disentangle = FALSE
    /\ classification = ""
    /\ compiled_article = None
    /\ quality_score = 0
    /\ retry_count = 0
    /\ current_thread_idx = 0
    /\ response = {}
    /\ excluded = 0
    /\ enqueued = <<>>
    /\ task_result = None
    /\ last_node = "evaluator"
    /\ evaluator_calls = 1
    /\ compiler_calls = 0
    /\ all_failing = TRUE
    /\ batch = <<>>
    /\ consented_users = None
    /\ backend_failed = FALSE
    /\ input_messages = <<>>
    /\ prior_messages = <<>>
    /\ checkpoint = NoCheckpoint
    /\ retries = 0
    /\ ClusterIdle
    /\ ProducerIdle
    /\ StorageIdle
    /\ FunctionsIdle

NextGate == RouteAfterEvaluation

SpecGate == InitGate /\ [][NextGate]_vars

(***************************************************************************)
(* Properties.                                                             *)
(***************************************************************************)
ArticleLabels == {"TROUBLESHOOTING", "QUESTION_ANSWER", "GUIDE", "DISCUSSION_SUMMARY"}
KnownLabels == {"NOISE"} \cup ArticleLabels

\* some node of the graph has run in this task invocation
RunStarted == last_node # ""
RunEnded == pc \in {"end", "done"} /\ RunStarted

\* C1: in every state of a graph run started with retry_count = 0,
\* retry_count is at most 3.
C1_BoundedRetries == retry_count <= 3

C1_Witness == last_node = "quality_gate" /\ retry_count = 3 /\ pc = "end"

\* C2: the evaluator is invoked if and only if the router's classification
\* is not NOISE; on NOISE the run ends right after the router, neither the
\* evaluator nor the compiler runs, and the final state has
\* compiled_article = null and quality_score = 0.
C2_NoiseShortCircuit ==
    /\ (evaluator_calls > 0 => classification # "NOISE")
    /\ (RunEnded => (evaluator_calls > 0 <=> classification # "NOISE"))
    /\ (RunEnded /\ classification = "NOISE" =>
            /\ last_node = "router"
            /\ evaluator_calls = 0
            /\ compiler_calls = 0
            /\ compiled_article = None
            /\ quality_score = 0)

C2_Witness ==
    /\ pc = "done" /\ classification = "NOISE" /\ last_node = "router"
    /\ Len(messages) = 3

\* C3: for article_type TROUBLESHOOTING, and for a state without
\* article_type, route_after_evaluation goes to the compiler exactly when
\* (is_resolved and has_code) or (has_solution and has_code) or
\* (has_solution and is_resolved), and ends the run otherwise.
C3_TroubleshootingGate ==
    (/\ pc \in {"compiler", "end"}
     /\ last_node = "evaluator"
     /\ evaluation # None
     /\ article_type \in {"TROUBLESHOOTING", "absent"})
    => (pc = "compiler" <=>
            LET ev == evaluation[1]
            IN  \/ (ev.is_resolved /\ ev.has_code)
                \/ (ev.has_solution /\ ev.has_code)
                \/ (ev.has_solution /\ ev.is_resolved))

\* C4: with article_type GUIDE or DISCUSSION_SUMMARY route_after_evaluation
\* always goes to the compiler (for every non-null evaluation); with
\* QUESTION_ANSWER it goes to the compiler exactly when has_solution holds.
C4_TypeAwareGate ==
    (/\ pc \in {"compiler", "end"}
     /\ last_node = "evaluator"
     /\ evaluation # None)
    => /\ (article_type \in {"GUIDE", "DISCUSSION_SUMMARY"} => pc = "compiler")
       /\ (article_type = "QUESTION_ANSWER" =>
               (pc = "compiler" <=> evaluation[1].has_solution))

\* C5: for every classifier response router_node emits a classification
\* among the five labels and sets article_type to it, or to the empty
\* string when the classification is NOISE.
C5_RouterLabels ==
    pc = "route_after_classification" =>
        /\ classification \in KnownLabels
        /\ article_type = (IF classification = "NOISE" THEN "" ELSE classification)

\* C6: when the classifier response names none of the five labels,
\* router_node emits QUESTION_ANSWER.
C6_AmbiguityDefault ==
    (pc = "route_after_classification" /\ response \cap KnownLabels = {})
        => classification = "QUESTION_ANSWER"

\* C7: after a quality_gate step the run terminates when quality_score is
\* at least 0.70 (whatever retry_count is), else goes back to the compiler
\* when retry_count < 3, else terminates; the compiler is never re-entered
\* after a passing score.
C7_GateRouting ==
    [][/\ (pc = "quality_gate" => pc' = "route_after_quality")
       /\ (pc = "route_after_quality" =>
               pc' = (IF quality_score >= 70 THEN "end"
                      ELSE IF retry_count < 3 THEN "compiler"
                      ELSE "end"))
       /\ (~all_failing => pc' # "compiler")]_vars

C7_Witness ==
    /\ pc = "end" /\ last_node = "quality_gate"
    /\ quality_score = 70 /\ retry_count = 2

\* C8: quality_gate_node leaves retry_count unchanged when the computed
\* score is at least 0.70 and adds one when it is below; the routing
\* decision that follows sees the updated value; no other node changes
\* retry_count.
C8_RetryFrame ==
    [][/\ (pc = "quality_gate" =>
               /\ retry_count' = (IF quality_score' >= 70 THEN retry_count
                                  ELSE retry_count + 1)
               /\ pc' = "route_after_quality")
       /\ (pc \in {"disentangle", "router", "route_after_classification",
                   "evaluator", "route_after_evaluation", "compiler",
                   "route_after_quality", "end"}
               => retry_count' = retry_count)]_vars

C8_Witness ==
    /\ pc = "route_after_quality" /\ retry_count = 2 /\ quality_score >= 70

\* C9: when every compiled article fails the gate, a run that reaches the
\* compiler makes exactly three compile attempts and ends with
\* retry_count = 3 and quality_score < 0.70, and the worker enqueues no
\* store_article job.
C9_BoundedRetryRun ==
    (RunEnded /\ compiler_calls > 0 /\ all_failing) =>
        /\ compiler_calls = 3
        /\ retry_count = 3
        /\ quality_score < 70
        /\ enqueued = <<>>

C9_Witness ==
    /\ pc = "done" /\ compiler_calls = 3 /\ all_failing
    /\ compiled_article # None

\* C10: the worker enqueues store_article for a batch if and only if the
\* final graph state has quality_score >= 0.70 and a non-null
\* compiled_article; runs that end at NOISE, at an evaluator suspend or at
\* a quality-gate rejection enqueue nothing.
C10_StoreIffPassed ==
    /\ (pc # "done" => enqueued = <<>>)
    /\ (pc = "done" =>
            /\ (enqueued # <<>> <=> (quality_score >= 70 /\ compiled_article # None))
            /\ (last_node \in {"router", "evaluator"} => enqueued = <<>>)
            /\ (last_node = "quality_gate" /\ quality_score < 70 => enqueued = <<>>)
            /\ (enqueued # <<>> =>
                    /\ Len(enqueued) = 1
                    /\ enqueued[1].article_data = compiled_article[1]
                    /\ enqueued[1].quality_score = quality_score))

C10_Witness ==
    /\ pc = "done" /\ enqueued # <<>> /\ quality_score = 70


(***************************************************************************)
(* Consent gating and anonymization in the batch worker.                   *)
(***************************************************************************)
\* the worker got past its argument handling for the current batch
BatchTaken == batch_no > 0 /\ pc # "idle"

\* the messages of msgs whose author is in the set, in their order
ByConsentedAuthors(msgs, consented) ==
    SelectSeq(msgs, LAMBDA m : m.author_hash \in consented)

\* C11: for a discord batch the messages handed to the graph are exactly the
\* batch messages whose author_hash is in the consented set, in their
\* original order, and excluded counts the dropped ones; for a github batch
\* the registry is not consulted and every message is handed to the graph.
C11_ConsentFilterExact ==
    BatchTaken =>
        IF source_type = "discord"
        THEN /\ consented_users # None
             /\ LET kept == ByConsentedAuthors(batch, consented_users[1])
                IN  /\ Len(input_messages) = Len(kept)
                    /\ \A k \in 1..Len(kept) :
                          input_messages[k] = anonymize(kept[k])
                    /\ excluded = Len(batch) - Len(kept)
        ELSE /\ consented_users = None
             /\ Len(input_messages) = Len(batch)
             /\ \A k \in 1..Len(batch) : input_messages[k] = anonymize(batch[k])
             /\ excluded = 0

C11_Witness ==
    /\ pc = "disentangle"
    /\ source_type = "discord"
    /\ excluded > 0
    /\ Len(input_messages) = 2

\* C12: the consent lookup is fail-closed: on a backend error the consented
\* set is empty, every message of the batch is dropped, and the worker
\* returns SKIPPED without running the graph and without storing anything.
C12_FailClosed ==
    backend_failed =>
        /\ consented_users = Some({})
        /\ excluded = Len(batch)
        /\ input_messages = <<>>
        /\ pc = "done"
        /\ task_result = Some(TaskResult("SKIPPED", "no_consented_messages", -1))
        /\ last_node = ""
        /\ messages = <<>>
        /\ enqueued = <<>>

C12_Witness ==
    /\ backend_failed
    /\ Len(batch) = 3
    /\ pc = "done"

\* C13: consent filtering and anonymization both happen before the graph is
\* invoked: for every source type no message of the graph state, and no
\* message of a thread built from it, still carries PII, and on discord every
\* message handed over has a consented author.
C13_AnonymizedBeforeGraph ==
    BatchTaken =>
        /\ \A k \in 1..Len(input_messages) : ~input_messages[k].pii
        /\ \A k \in 1..Len(messages) : ~messages[k].pii
        /\ \A t \in 1..Len(threads) : \A k \in 1..Len(threads[t]) :
              ~threads[t][k].pii
        /\ source_type = "discord" =>
              \A k \in 1..Len(input_messages) :
                  input_messages[k].author_hash \in consented_users[1]

C13_Witness ==
    /\ pc = "route_after_classification"
    /\ source_type = "github"
    /\ \E k \in 1..Len(batch) : batch[k].pii
    /\ threads # <<>>

(***************************************************************************)
(* Checkpointing: what a second invocation finds under its thread_id.      *)
(***************************************************************************)
\* this step is graph.invoke of the next batch, after a run of the graph
\* that ended at the node `node`
InvokeAfter(node) ==
    /\ pc = "done"
    /\ last_node = node
    /\ pc' = "disentangle"

\* the invocation of this step uses the thread_id of the run before it
SameThreadId ==
    /\ source_type' = source_type
    /\ prior_messages' = messages

\* C18: a run that ended at the evaluator is checkpointed under its
\* thread_id, and the next batch of the same (source_type, channel) resumes
\* it: the merged messages are the earlier ones followed by the new ones.
C18_SecondBatchResumes ==
    [][ (InvokeAfter("evaluator") /\ source_type' = source_type)
            => messages' = messages \o input_messages' ]_vars

\* C19: re-invoking with the same thread_id and identical inputs is
\* idempotent: the messages and the threads the compiler sees on the second
\* invocation equal those of the first.
C19_Idempotent ==
    [][ ( /\ InvokeAfter("quality_gate")
          /\ prior_messages = <<>>
          /\ SameThreadId
          /\ input_messages' = input_messages )
            => /\ messages' = messages
               /\ disentangle_threads(messages') = threads ]_vars

(***************************************************************************)
(* DisentanglementEngine.cluster on its own: every message list up to      *)
(* MaxClusterLen over messages that exercise each linking rule, in any     *)
(* order (the engine does not require a chronological input).              *)
(***************************************************************************)
MaxClusterLen == 3

ClusterMsgs ==
    { Msg(1, "a", 0, 0, {}, 1, TRUE, FALSE),
      Msg(2, "b", 5, 1, {}, 3, FALSE, FALSE),
      Msg(3, "c", 3, 0, {"a"}, 3, FALSE, FALSE),
      Msg(4, "a", 300, 0, {}, 1, TRUE, FALSE),
      Msg(5, "b", 2, 0, {}, 1, FALSE, FALSE),
      Msg(6, "c", 250, 1, {}, 1, TRUE, FALSE),
      Msg(7, "b", 200, 0, {}, 1, FALSE, FALSE) }

ClusterInputs == UNION { [1..n -> ClusterMsgs] : n \in 0..MaxClusterLen }

InitCluster ==
    /\ WorkerInit
    /\ ProducerIdle
    /\ StorageIdle
    /\ FunctionsIdle
    /\ cluster_input \in ClusterInputs
    /\ clusters = None

Cluster ==
    /\ clusters = None
    /\ clusters' = Some(cluster(cluster_input))
    /\ UNCHANGED <<cluster_input, worker_vars, producer_vars, storage_vars,
                   function_vars>>

NextCluster == Cluster

SpecCluster == InitCluster /\ [][NextCluster]_vars

\* how many positions of the sequence hold the element
Occurrences(seq, x) == Cardinality({k \in 1..Len(seq) : seq[k] = x})

\* C20: cluster returns a partition of its input: every input message is in
\* exactly one returned thread, no thread is empty (no thread for an empty
\* input, one singleton thread for a single message), and the timestamps of
\* a thread are non-decreasing.
C20_ClusterPartition ==
    clusters # None =>
        LET result == clusters[1]
            flat == FlattenSeq(result)
        IN  /\ Len(flat) = Len(cluster_input)
            /\ \A k \in 1..Len(cluster_input) :
                  Occurrences(flat, cluster_input[k])
                      = Occurrences(cluster_input, cluster_input[k])
            /\ \A t \in 1..Len(result) : result[t] # <<>>
            /\ cluster_input = <<>> => result = <<>>
            /\ Len(cluster_input) = 1 => result = <<cluster_input>>
            /\ \A t \in 1..Len(result) : \A k \in 1..(Len(result[t]) - 1) :
                  result[t][k].timestamp <= result[t][k + 1].timestamp

\* an input out of chronological order: two linked messages come back in
\* timestamp order, a third message forms a thread of its own
C20_Witness ==
    /\ clusters # None
    /\ Len(cluster_input) = 3
    /\ Len(clusters[1]) = 2
    /\ \E i, j \in 1..3 :
          /\ i < j
          /\ cluster_input[i].timestamp > cluster_input[j].timestamp
          /\ \E t \in 1..2 : clusters[1][t] = <<cluster_input[j], cluster_input[i]>>

(***************************************************************************)
(* StreamProducer (bot): the buffer of one (server, channel).  Each        *)
(* on_message task runs publish; a Redis command is one step at the server *)
(* and the code between two awaits is one step of the event loop, so the   *)
(* publishes of two tasks interleave at the awaits.                        *)
(***************************************************************************)
BATCH_SIZE == 50
BATCH_WINDOW_SECONDS == 300

MaxPublishes == 3
MaxTicks == 2
MaxRestarts == 1

\* the clock advances in steps of one batch window
TickSeconds == BATCH_WINDOW_SECONDS

\* messages buffered before the first step: none, or two short of a batch
Prefills == {0, BATCH_SIZE - 2}

\* stream entry ID of the n-th publish made after the start
EntryId(n) == (BATCH_SIZE - 2) + n

Entry(id, at) == [id |-> id, at |-> at]

\* message_ids of a stream read
EntryIds(raw) == {raw[k].id : k \in 1..Len(raw)}

InitProducer ==
    /\ WorkerInit
    /\ ClusterIdle
    /\ StorageIdle
    /\ FunctionsIdle
    /\ \E k \in Prefills :
          /\ stream = [i \in 1..k |-> Entry(i, 0)]
          /\ counter = k
          /\ batch_timers = IF k = 0 THEN None ELSE Some(0)
    /\ now = 0
    /\ coro = [c \in Coros |-> IdleFrame]
    /\ dispatched = <<>>
    /\ published = 0
    /\ restarts = 0

\* publish up to the XADD
PublishXadd(c) ==
    /\ coro[c].pc = "idle"
    /\ published < MaxPublishes
    /\ published' = published + 1
    /\ stream' = Append(stream, Entry(EntryId(published + 1), now))
    /\ coro' = [coro EXCEPT ![c] =
                   [IdleFrame EXCEPT !.pc = "incr"]]
    /\ UNCHANGED <<counter, batch_timers, now, dispatched, restarts>>

\* count = await self.redis.incr(counter_key)
Incr(c) ==
    /\ coro[c].pc = "incr"
    /\ counter' = counter + 1
    /\ coro' = [coro EXCEPT ![c].count = counter + 1, ![c].pc = "check"]
    /\ UNCHANGED <<stream, batch_timers, now, dispatched, published, restarts>>

\* timer initialisation and trigger decision, up to the next await or return
Check(c) ==
    /\ coro[c].pc = "check"
    /\ LET count == coro[c].count
           timers == IF count = 1 THEN Some(now) ELSE batch_timers
           time_elapsed == now - (IF timers = None THEN now ELSE timers[1])
           should_trigger == count >= BATCH_SIZE
                                \/ time_elapsed >= BATCH_WINDOW_SECONDS
           first_age == IF stream = <<>> THEN 0 ELSE now - stream[1].at
       IN  /\ batch_timers' = timers
           /\ coro' = [coro EXCEPT ![c].first_age = first_age,
                                   ![c].pc = IF should_trigger THEN "xrange" ELSE "idle",
                                   ![c].result = IF should_trigger THEN None
                                                 ELSE Some(FALSE)]
    /\ UNCHANGED <<stream, counter, now, dispatched, published, restarts>>

\* raw_messages = await self.redis.xrange(stream_key)
Xrange(c) ==
    /\ coro[c].pc = "xrange"
    /\ coro' = [coro EXCEPT ![c].raw_messages = stream, ![c].pc = "dispatch"]
    /\ UNCHANGED <<stream, counter, batch_timers, now, dispatched, published,
                   restarts>>

\* _trigger_batch from the stream read to the XDEL: nothing read, or
\* process_message_batch.delay raised, ends the flush and publish returns
DispatchBatch(c) ==
    /\ coro[c].pc = "dispatch"
    /\ \/ /\ coro[c].raw_messages = <<>>
          /\ batch_timers' = None
          /\ coro' = [coro EXCEPT ![c].pc = "idle", ![c].result = Some(TRUE)]
          /\ UNCHANGED dispatched
       \/ /\ coro[c].raw_messages # <<>>
          /\ dispatched' = Append(dispatched, coro[c].raw_messages)
          /\ coro' = [coro EXCEPT ![c].sent = TRUE, ![c].pc = "xdel"]
          /\ UNCHANGED batch_timers
       \/ /\ coro[c].raw_messages # <<>>
          /\ batch_timers' = None
          /\ coro' = [coro EXCEPT ![c].failed = TRUE, ![c].pc = "idle",
                                  ![c].result = Some(TRUE)]
          /\ UNCHANGED dispatched
    /\ UNCHANGED <<stream, counter, now, published, restarts>>

\* await self.redis.xdel(stream_key, *message_ids)
Xdel(c) ==
    /\ coro[c].pc = "xdel"
    /\ stream' = SelectSeq(stream, LAMBDA e : e.id \notin EntryIds(coro[c].raw_messages))
    /\ coro' = [coro EXCEPT ![c].pc = "delete"]
    /\ UNCHANGED <<counter, batch_timers, now, dispatched, published, restarts>>

\* await self.redis.delete(counter_key)
Delete(c) ==
    /\ coro[c].pc = "delete"
    /\ counter' = 0
    /\ coro' = [coro EXCEPT ![c].pc = "pop"]
    /\ UNCHANGED <<stream, batch_timers, now, dispatched, published, restarts>>

\* self._batch_timers.pop(timer_key, None); return True
PopTimer(c) ==
    /\ coro[c].pc = "pop"
    /\ batch_timers' = None
    /\ coro' = [coro EXCEPT ![c].pc = "idle", ![c].result = Some(TRUE)]
    /\ UNCHANGED <<stream, counter, now, dispatched, published, restarts>>

\* time passes; nothing in the producer runs on a clock
Tick ==
    /\ now < MaxTicks * TickSeconds
    /\ now' = now + TickSeconds
    /\ UNCHANGED <<stream, counter, batch_timers, coro, dispatched, published,
                   restarts>>

\* the bot process restarts: Redis keeps its keys, the new StreamProducer
\* starts with an empty _batch_timers and no task in progress
Restart ==
    /\ restarts < MaxRestarts
    /\ restarts' = restarts + 1
    /\ batch_timers' = None
    /\ coro' = [c \in Coros |-> IdleFrame]
    /\ UNCHANGED <<stream, counter, now, dispatched, published>>

NextProducer ==
    \/ \E c \in Coros : PublishXadd(c) /\ UNCHANGED <<worker_vars, cluster_vars, storage_vars, function_vars>>
    \/ \E c \in Coros : Incr(c) /\ UNCHANGED <<worker_vars, cluster_vars, storage_vars, function_vars>>
    \/ \E c \in Coros : Check(c) /\ UNCHANGED <<worker_vars, cluster_vars, storage_vars, function_vars>>
    \/ \E c \in Coros : Xrange(c) /\ UNCHANGED <<worker_vars, cluster_vars, storage_vars, function_vars>>
    \/ \E c \in Coros : DispatchBatch(c) /\ UNCHANGED <<worker_vars, cluster_vars, storage_vars, function_vars>>
    \/ \E c \in Coros : Xdel(c) /\ UNCHANGED <<worker_vars, cluster_vars, storage_vars, function_vars>>
    \/ \E c \in Coros : Delete(c) /\ UNCHANGED <<worker_vars, cluster_vars, storage_vars, function_vars>>
    \/ \E c \in Coros : PopTimer(c) /\ UNCHANGED <<worker_vars, cluster_vars, storage_vars, function_vars>>
    \/ Tick /\ UNCHANGED <<worker_vars, cluster_vars, storage_vars, function_vars>>
    \/ Restart /\ UNCHANGED <<worker_vars, cluster_vars, storage_vars, function_vars>>

SpecProducer == InitProducer /\ [][NextProducer]_vars

\* the publish of task c has returned
Returned(c) == coro[c].pc = "idle" /\ coro[c].result # None

\* task c is between the stream read and the timer reset of a flush
InFlush(c) == coro[c].pc \in {"xrange", "dispatch", "xdel", "delete", "pop"}

\* C14: a publish whose counter value is BATCH_SIZE or more flushes: it
\* dispatches one batch carrying what the stream holds (unless the dispatch
\* itself raised); a publish whose counter value is below BATCH_SIZE with
\* less than BATCH_WINDOW_SECONDS since the first buffered message
\* dispatches nothing and returns False.
C14_SizeTrigger ==
    \A c \in Coros :
        Returned(c) =>
            /\ coro[c].count >= BATCH_SIZE =>
                  /\ coro[c].result = Some(TRUE)
                  /\ coro[c].failed \/ (coro[c].sent /\ coro[c].raw_messages # <<>>)
            /\ (coro[c].count < BATCH_SIZE
                  /\ coro[c].first_age < BATCH_WINDOW_SECONDS) =>
                  /\ coro[c].result = Some(FALSE)
                  /\ ~coro[c].sent

\* C15: a non-empty buffer emits a batch once BATCH_WINDOW_SECONDS have
\* passed since its first message, also when no further message is
\* published: a buffer at rest never holds a message older than the window.
C15_AgeTrigger ==
    (stream # <<>> /\ \A c \in Coros : coro[c].pc = "idle")
        => now - stream[1].at <= BATCH_WINDOW_SECONDS

\* C16: a flush is atomic with respect to the other publishes of the
\* channel: when it completes, the stream is empty, the counter is 0 and
\* the timer is cleared.
C16_AtomicFlush ==
    [][ \A c \in Coros :
            (coro[c].pc = "pop" /\ coro'[c].pc = "idle" /\ restarts' = restarts)
                => (stream' = <<>> /\ counter' = 0 /\ batch_timers' = None) ]_vars

\* C17: the buffer dispatches at most one flush at a time per key.
C17_OneFlushAtATime ==
    Cardinality({c \in Coros : InFlush(c)}) <= 1

(***************************************************************************)
(* Linking rules of the disentanglement engine, read off cluster's output. *)
(***************************************************************************)
\* the two messages are within the temporal window of each other
InWindow(a, b) == Abs(a.timestamp - b.timestamp) <= TEMPORAL_WINDOW

\* one message replies to the other, or mentions the other's author
ExplicitEdge(a, b) ==
    \/ (b.reply_to # 0 /\ b.reply_to = a.id)
    \/ (a.reply_to # 0 /\ a.reply_to = b.id)
    \/ a.author_hash \in b.mentions
    \/ b.author_hash \in a.mentions

\* some returned thread holds both messages
SameThread(result, a, b) ==
    \E t \in 1..Len(result) :
        /\ \E k \in 1..Len(result[t]) : result[t][k] = a
        /\ \E k \in 1..Len(result[t]) : result[t][k] = b

\* the positions reachable from the set by steps between two directly
\* linked messages that are within the window of each other
RECURSIVE InWindowChain(_, _)
InWindowChain(msgs, set) ==
    LET next == set \cup {j \in 1..Len(msgs) :
                    \E i \in set : /\ InWindow(msgs[i], msgs[j])
                                   /\ adjacency(msgs, i, j)}
    IN  IF next = set THEN set ELSE InWindowChain(msgs, next)

\* C21: two messages of a batch within the temporal window of each other,
\* one replying to the other or mentioning the other's author, are in the
\* same thread whatever their similarity is.
C21_ExplicitEdgeDominance ==
    clusters # None =>
        \A i, j \in 1..Len(cluster_input) :
            (/\ i # j
             /\ InWindow(cluster_input[i], cluster_input[j])
             /\ ExplicitEdge(cluster_input[i], cluster_input[j]))
                => SameThread(clusters[1], cluster_input[i], cluster_input[j])

\* a reply and a mention, each to a message on an unrelated topic
C21_Witness ==
    /\ clusters # None
    /\ Len(cluster_input) = 3
    /\ Len(clusters[1]) = 1
    /\ \E i, j \in 1..3 :
          /\ cluster_input[j].reply_to = cluster_input[i].id
          /\ cosine_similarity(cluster_input[i].topic, cluster_input[j].topic)
                < SIMILARITY_THRESHOLD
    /\ \E i, j \in 1..3 :
          /\ cluster_input[i].author_hash \in cluster_input[j].mentions
          /\ cosine_similarity(cluster_input[i].topic, cluster_input[j].topic)
                < SIMILARITY_THRESHOLD

\* C22: two messages more than TEMPORAL_WINDOW apart share a thread only
\* through a chain of directly linked messages each within the window of
\* the next, and two such messages alone in a batch end in two threads.
C22_TemporalGate ==
    clusters # None =>
        /\ \A i, j \in 1..Len(cluster_input) :
              (/\ ~InWindow(cluster_input[i], cluster_input[j])
               /\ SameThread(clusters[1], cluster_input[i], cluster_input[j]))
                  => \E i2, j2 \in 1..Len(cluster_input) :
                        /\ cluster_input[i2] = cluster_input[i]
                        /\ cluster_input[j2] = cluster_input[j]
                        /\ j2 \in InWindowChain(cluster_input, {i2})
        /\ (/\ Len(cluster_input) = 2
            /\ ~InWindow(cluster_input[1], cluster_input[2]))
              => Len(clusters[1]) = 2

\* a reply that comes after the window has closed stays apart from the
\* message it answers, while two other messages of the batch are linked
C22_Witness ==
    /\ clusters # None
    /\ \E i, j \in 1..Len(cluster_input) :
          /\ cluster_input[j].reply_to = cluster_input[i].id
          /\ ~InWindow(cluster_input[i], cluster_input[j])
          /\ ~SameThread(clusters[1], cluster_input[i], cluster_input[j])
    /\ Len(cluster_input) = 3
    /\ Len(clusters[1]) = 2
    /\ \E t \in 1..2 : Len(clusters[1][t]) = 2

(***************************************************************************)
(* Output of the disentangle node.                                         *)
(***************************************************************************)
\* the threads are ordered by length, longest first
LargestFirst(ts) == \A t \in 1..(Len(ts) - 1) : Len(ts[t]) >= Len(ts[t + 1])

\* C23: the disentangle node outputs threads largest first with
\* current_thread_idx = 0, and every message of state.messages is still
\* present in some output thread (threads of fewer than 2 messages are
\* collapsed into a catch-all thread, not dropped).  Stated for the runs
\* in which the node clusters (skip_disentangle = false).
C23_NoMessageDropped ==
    (RunStarted /\ ~skip_disentangle) =>
        /\ LargestFirst(threads)
        /\ current_thread_idx = 0
        /\ Len(FlattenSeq(threads)) = Len(messages)
        /\ \A k \in 1..Len(messages) :
              Occurrences(FlattenSeq(threads), ThreadMessage(messages[k]))
                  = Occurrences(thread_dict(messages), ThreadMessage(messages[k]))

\* C24: with skip_disentangle = true the disentangle node preserves its
\* input verbatim: one thread holding all input messages in input order.
C24_SkipDisentangle ==
    (RunStarted /\ skip_disentangle) => threads = <<thread_dict(messages)>>

(***************************************************************************)
(* What the compiler and the evaluator emit.                               *)
(***************************************************************************)
\* C25: in every run that compiles an article, the compiled_article carries
\* an article_type equal to the run's classification, and the quality gate
\* scores it with the weight table of that type.
C25_ArticleTypeMatches ==
    (RunStarted /\ compiled_article # None) =>
        /\ compiled_article[1].article_type = classification
        /\ last_node = "quality_gate" =>
              quality_score =
                  IF classification = "TROUBLESHOOTING"
                  THEN troubleshooting_score(compiled_article[1])
                  ELSE redistributed_score(compiled_article[1])

\* C26: every Evaluation the evaluator emits satisfies
\* is_resolved => has_solution.
C26_ResolvedImpliesSolution ==
    (RunStarted /\ evaluation # None) =>
        (evaluation[1].is_resolved => evaluation[1].has_solution)

(***************************************************************************)
(* Failures inside a node and the worker's retry.                          *)
(***************************************************************************)
\* C27: parse and shape failures are never propagated out of a node: the
\* evaluator answers an unusable reply with an Evaluation, a compiler
\* failure yields compiled_article = null, which the quality gate scores 0
\* and counts as a failed attempt, and the run ends without raising.
C27_NoFailurePropagates ==
    /\ pc # "raised"
    /\ (last_node = "evaluator" /\ pc = "route_after_evaluation")
          => evaluation # None
    /\ (last_node = "quality_gate" /\ compiled_article = None)
          => (quality_score = 0 /\ retry_count >= 1)

\* C28: an exception raised inside a graph node does not cause
\* process_message_batch to be retried.
C28_NoRetryOnNodeError ==
    [][ pc = "raised" => (pc' # "retry" /\ retries' = retries) ]_vars

(***************************************************************************)
(* store_article: persisting a compiled article.                           *)
(***************************************************************************)
MaxStores == 2

\* external ids of the Channel rows in the database, and the ids callers pass
KnownChannels == {"c1"}
ChannelIds == {"c1", "c2"}

\* keys of article_data that store_article subscripts
RequiredKeys == {"symptom", "diagnosis", "solution", "confidence",
                 "thread_summary"}
EmbeddingKeys == {"thread_summary", "symptom", "solution"}
ArticleDatas == {RequiredKeys, RequiredKeys \ {"diagnosis"},
                 RequiredKeys \ {"symptom"}}

\* variant: a session in autocommit mode, where a flush is durable at once
flush_autocommit(committed, pending) == committed \cup pending

\* session.flush(): the pending rows are sent inside the open transaction;
\* the committed store is what it was
flush(committed, pending) == committed

\* session.commit(): the rows of the transaction become durable together
commit(committed, pending) == committed \cup pending

InitStore ==
    /\ WorkerInit
    /\ ClusterIdle
    /\ ProducerIdle
    /\ StorageIdle
    /\ FunctionsIdle

\* the task is picked up: engine created, session opened
StoreStart(channel_id, article_data, score) ==
    /\ store_pc \in {"idle", "returned", "raised"}
    /\ store_no < MaxStores
    /\ store_no' = store_no + 1
    /\ store_args' = Some([channel_id |-> channel_id,
                           article_data |-> article_data,
                           quality_score |-> score])
    /\ embedding' = None
    /\ embedding_failed' = FALSE
    /\ db_before' = [threads |-> db_threads, articles |-> db_articles]
    /\ store_pc' = "select_channel"
    /\ UNCHANGED <<tx_threads, tx_articles, db_threads, db_articles,
                   thread_seq, store_log>>

\* the channel lookup, and the early return when there is no such channel
SelectChannel ==
    /\ store_pc = "select_channel"
    /\ IF store_args[1].channel_id \in KnownChannels
       THEN /\ store_pc' = "add_thread"
            /\ store_log' = store_log
       ELSE /\ store_pc' = "returned"
            /\ store_log' = Append(store_log, "channel_not_found")
    /\ UNCHANGED <<store_no, store_args, tx_threads, tx_articles, db_threads,
                   db_articles, thread_seq, embedding, embedding_failed,
                   db_before>>

\* session.add(thread); session.flush(). A database error propagates out of
\* the with block, which closes the session and rolls the transaction back.
AddThreadFlush ==
    /\ store_pc = "add_thread"
    /\ \E ok \in BOOLEAN :
          IF ok
          THEN /\ thread_seq' = thread_seq + 1
               /\ tx_threads' =
                     {[id |-> thread_seq + 1,
                       channel_id |-> store_args[1].channel_id]}
               /\ db_threads' = flush(db_threads, tx_threads')
               /\ store_pc' = "embed"
               /\ store_log' = store_log
          ELSE /\ thread_seq' = thread_seq
               /\ tx_threads' = {}
               /\ db_threads' = db_threads
               /\ store_pc' = "raised"
               /\ store_log' = Append(store_log, "failed")
    /\ UNCHANGED <<store_no, store_args, tx_articles, db_articles, embedding,
                   embedding_failed, db_before>>

\* the embedding try block: a missing key or a provider error is caught,
\* logged, and leaves embedding = None
Embed ==
    /\ store_pc = "embed"
    /\ \E provider_ok \in BOOLEAN :
          LET ok == provider_ok
                      /\ EmbeddingKeys \subseteq store_args[1].article_data
          IN  /\ embedding' = IF ok THEN Some("vector") ELSE None
              /\ embedding_failed' = ~ok
    /\ store_pc' = "add_article"
    /\ UNCHANGED <<store_no, store_args, tx_threads, tx_articles, db_threads,
                   db_articles, thread_seq, db_before, store_log>>

\* Article(...) and session.add(article); a missing required key raises
\* KeyError out of the with block
AddArticle ==
    /\ store_pc = "add_article"
    /\ IF RequiredKeys \subseteq store_args[1].article_data
       THEN LET thread == CHOOSE t \in tx_threads : TRUE
            IN  /\ tx_articles' =
                      {[thread_id |-> thread.id,
                        embedding |-> embedding,
                        quality_score |-> store_args[1].quality_score]}
                /\ tx_threads' = tx_threads
                /\ store_pc' = "commit"
                /\ store_log' = store_log
       ELSE /\ tx_articles' = {}
            /\ tx_threads' = {}
            /\ store_pc' = "raised"
            /\ store_log' = Append(store_log, "failed")
    /\ UNCHANGED <<store_no, store_args, db_threads, db_articles, thread_seq,
                   embedding, embedding_failed, db_before>>

\* session.commit(), which first inserts the article; on a database error
\* the transaction is rolled back as a whole
Commit ==
    /\ store_pc = "commit"
    /\ \E ok \in BOOLEAN :
          IF ok
          THEN /\ db_threads' = commit(db_threads, tx_threads)
               /\ db_articles' = commit(db_articles, tx_articles)
               /\ store_pc' = "returned"
               /\ store_log' = Append(store_log, "stored")
          ELSE /\ db_threads' = db_threads
               /\ db_articles' = db_articles
               /\ store_pc' = "raised"
               /\ store_log' = Append(store_log, "failed")
    /\ tx_threads' = {}
    /\ tx_articles' = {}
    /\ UNCHANGED <<store_no, store_args, thread_seq, embedding,
                   embedding_failed, db_before>>

NextStore ==
    \/ \E c \in ChannelIds, d \in ArticleDatas, q \in {70, 90} :
          StoreStart(c, d, q)
             /\ UNCHANGED <<worker_vars, cluster_vars, producer_vars,
                            export_vars, function_vars>>
    \/ SelectChannel
          /\ UNCHANGED <<worker_vars, cluster_vars, producer_vars, export_vars,
                       function_vars>>
    \/ AddThreadFlush
          /\ UNCHANGED <<worker_vars, cluster_vars, producer_vars, export_vars,
                       function_vars>>
    \/ Embed
          /\ UNCHANGED <<worker_vars, cluster_vars, producer_vars, export_vars,
                       function_vars>>
    \/ AddArticle
          /\ UNCHANGED <<worker_vars, cluster_vars, producer_vars, export_vars,
                       function_vars>>
    \/ Commit
          /\ UNCHANGED <<worker_vars, cluster_vars, producer_vars, export_vars,
                       function_vars>>

SpecStore == InitStore /\ [][NextStore]_vars

\* outcome of the execution that finished last
LastOutcome == store_log[Len(store_log)]

\* C29: article persistence never leaves an orphan thread. An unresolved
\* channel makes store_article return having created neither a Thread nor an
\* Article; in every other outcome the committed store holds a new Thread
\* only together with its Article; after an embedding failure the article is
\* still stored, with a null embedding.
C29_NoOrphanThread ==
    /\ \A t \in db_threads : \E a \in db_articles : a.thread_id = t.id
    /\ (store_pc \in {"returned", "raised"}
           /\ store_args[1].channel_id \notin KnownChannels)
          => /\ store_pc = "returned"
             /\ LastOutcome = "channel_not_found"
             /\ db_threads = db_before.threads
             /\ db_articles = db_before.articles
    /\ store_pc = "raised"
          => /\ db_threads = db_before.threads
             /\ db_articles = db_before.articles
    /\ (store_pc = "returned" /\ LastOutcome = "stored")
          => \E t \in db_threads \ db_before.threads :
                \E a \in db_articles \ db_before.articles :
                   /\ a.thread_id = t.id
                   /\ embedding_failed => a.embedding = None

\* a failed execution was followed by one that stored its article although
\* the embedding could not be computed
C29_Witness ==
    /\ store_pc = "returned"
    /\ Len(store_log) = 2
    /\ store_log[1] = "failed"
    /\ LastOutcome = "stored"
    /\ embedding_failed
    /\ Cardinality(db_threads) = 1
    /\ \A a \in db_articles : a.embedding = None

(***************************************************************************)
(* export_dataset: the JSONL export and its provenance manifest.           *)
(***************************************************************************)
MaxExports == 2
MaxArticles == 2

LF == 10

\* Article rows of the exported server, all visible: the text of a field as
\* code points (plain, with a line break, non-ASCII) and the quality score
ArticleKinds == {[text |-> <<97>>, quality_score |-> 90],
                 [text |-> <<97, LF, 98>>, quality_score |-> 90],
                 [text |-> <<233>>, quality_score |-> 90],
                 [text |-> <<97>>, quality_score |-> 50]}
ArticleTables == UNION { [1..n -> ArticleKinds] : n \in 0..MaxArticles }

\* the characters json.dumps writes for a string body under
\* ensure_ascii=False: a line break becomes backslash-n, the rest is kept
RECURSIVE json_escape(_)
json_escape(text) ==
    IF text = <<>> THEN <<>>
    ELSE (IF Head(text) = LF THEN <<92, 110>> ELSE <<Head(text)>>)
            \o json_escape(Tail(text))

\* json.dumps(record, ensure_ascii=False) of the record built for article
\* number id: one line holding the id and the quoted text
json_dumps(id, text) == <<123, 48 + id, 34>> \o json_escape(text) \o <<34, 125>>

\* "\n".join(lines)
RECURSIVE join(_)
join(lines) ==
    IF lines = <<>> THEN <<>>
    ELSE IF Len(lines) = 1 THEN lines[1]
    ELSE lines[1] \o <<LF>> \o join(Tail(lines))

\* str.encode("utf-8"): one byte below 128, two bytes up to 2047
RECURSIVE encode(_)
encode(content) ==
    IF content = <<>> THEN <<>>
    ELSE (IF Head(content) < 128 THEN <<Head(content)>>
          ELSE <<192 + (Head(content) \div 64), 128 + (Head(content) % 64)>>)
            \o encode(Tail(content))

\* hashlib.sha256(data).hexdigest(), as an ideal hash: two digests are
\* equal exactly when the data are
sha256(data) == [digest_of |-> data]

compute_content_hash(data) == [prefix |-> "sha256:", hexdigest |-> sha256(data)]

create_manifest(export_id, record_count, content_hash, source_server) ==
    [title |-> export_id,
     provenance |-> [source |-> <<"discord", source_server>>,
                     record_count |-> record_count,
                     content_hash |-> content_hash,
                     pii_redacted |-> TRUE,
                     consent_verified |-> TRUE]]

\* json.dumps(manifest, sort_keys=True): the members in key order
manifest_json(manifest) ==
    <<<<"content_hash", manifest.provenance.content_hash>>,
      <<"record_count", manifest.provenance.record_count>>,
      <<"source", manifest.provenance.source>>,
      <<"title", manifest.title>>>>

sign_manifest(manifest) == compute_content_hash(manifest_json(manifest))

\* the rows the export query returns, each with its primary key
RECURSIVE select_articles(_, _, _)
select_articles(rows, next_id, min_quality) ==
    IF rows = <<>> THEN <<>>
    ELSE (IF Head(rows).quality_score >= min_quality
          THEN <<[id |-> next_id, text |-> Head(rows).text]>>
          ELSE <<>>)
            \o select_articles(Tail(rows), next_id + 1, min_quality)

InitExport ==
    /\ WorkerInit
    /\ ClusterIdle
    /\ ProducerIdle
    /\ StoreIdle
    /\ FunctionsIdle
    /\ export_pc = "idle"
    /\ export_no = 0
    /\ article_rows \in ArticleTables
    /\ pending_exports = {}
    /\ export_jobs = {}
    /\ export_queue = {}
    /\ export_frame = <<>>
    /\ export_files = <<>>
    /\ manifest_files = <<>>
    /\ completed = {}

\* POST /datasets/export: the DatasetExport row is added and flushed in the
\* request's session and the task is handed to the broker
TriggerExport(server_id, min_quality) ==
    /\ export_no < MaxExports
    /\ export_no' = export_no + 1
    /\ pending_exports' = pending_exports \cup
          {[id |-> export_no + 1, server_id |-> server_id, record_count |-> 0,
            file_path |-> "", file_size_bytes |-> 0,
            c2pa_manifest_hash |-> None, consent_verified |-> FALSE]}
    /\ export_queue' = export_queue \cup
          {[export_id |-> export_no + 1, server_id |-> server_id,
            min_quality |-> min_quality]}
    /\ UNCHANGED <<export_pc, article_rows, export_jobs, export_frame,
                   export_files, manifest_files, completed>>

\* get_db after the endpoint has returned: the request's session commits
RequestCommit ==
    /\ \E row \in pending_exports :
          /\ pending_exports' = pending_exports \ {row}
          /\ export_jobs' = export_jobs \cup {row}
    /\ UNCHANGED <<export_pc, export_no, article_rows, export_queue,
                   export_frame, export_files, manifest_files, completed>>

\* the worker takes a task and runs the article query; no article: return
ExportQuery ==
    /\ export_pc = "idle"
    /\ \E task \in export_queue :
          LET articles == select_articles(article_rows, 1, task.min_quality)
          IN  /\ export_queue' = export_queue \ {task}
              /\ IF articles = <<>>
                 THEN /\ export_pc' = "idle"
                      /\ export_frame' = <<>>
                 ELSE /\ export_pc' = "write"
                      /\ export_frame' =
                            Some([export_id |-> task.export_id,
                                  server_id |-> task.server_id,
                                  articles |-> articles,
                                  content_bytes |-> <<>>,
                                  manifest_hash |-> None])
    /\ UNCHANGED <<export_no, article_rows, pending_exports, export_jobs,
                   export_files, manifest_files, completed>>

\* the JSONL content is built and written, hashed, and the manifest is
\* created, signed and written next to it
ExportWrite ==
    /\ export_pc = "write"
    /\ LET f == export_frame[1]
           lines == [k \in 1..Len(f.articles) |->
                        json_dumps(f.articles[k].id, f.articles[k].text)]
           content_bytes == encode(join(lines))
           content_hash == compute_content_hash(content_bytes)
           manifest == create_manifest(f.export_id, Len(f.articles),
                                       content_hash, f.server_id)
       IN  /\ export_files' = (f.export_id :> content_bytes) @@ export_files
           /\ manifest_files' = (f.export_id :> manifest) @@ manifest_files
           /\ export_frame' =
                 Some([f EXCEPT !.content_bytes = content_bytes,
                                !.manifest_hash = Some(sign_manifest(manifest))])
    /\ export_pc' = "update"
    /\ UNCHANGED <<export_no, article_rows, pending_exports, export_jobs,
                   export_queue, completed>>

\* the DatasetExport row is looked up among the committed rows and, if it is
\* there, updated and committed; export_complete is logged either way
ExportUpdateJob ==
    /\ export_pc = "update"
    /\ LET f == export_frame[1]
           found == {row \in export_jobs : row.id = f.export_id}
       IN  /\ export_jobs' =
                 (export_jobs \ found) \cup
                 {[row EXCEPT !.record_count = Len(f.articles),
                              !.file_path = "export",
                              !.file_size_bytes = Len(f.content_bytes),
                              !.c2pa_manifest_hash = f.manifest_hash,
                              !.consent_verified = TRUE] : row \in found}
           /\ completed' = completed \cup {f.export_id}
    /\ export_pc' = "idle"
    /\ export_frame' = <<>>
    /\ UNCHANGED <<export_no, article_rows, pending_exports, export_queue,
                   export_files, manifest_files>>

NextExport ==
    \/ \E srv \in {1}, q \in {70} :
          TriggerExport(srv, q)
             /\ UNCHANGED <<worker_vars, cluster_vars, producer_vars,
                            store_vars, function_vars>>
    \/ RequestCommit
          /\ UNCHANGED <<worker_vars, cluster_vars, producer_vars, store_vars,
                       function_vars>>
    \/ ExportQuery
          /\ UNCHANGED <<worker_vars, cluster_vars, producer_vars, store_vars,
                       function_vars>>
    \/ ExportWrite
          /\ UNCHANGED <<worker_vars, cluster_vars, producer_vars, store_vars,
                       function_vars>>
    \/ ExportUpdateJob
          /\ UNCHANGED <<worker_vars, cluster_vars, producer_vars, store_vars,
                       function_vars>>

SpecExport == InitExport /\ [][NextExport]_vars

\* number of line breaks in a file
RECURSIVE CountLF(_)
CountLF(bytes) ==
    IF bytes = <<>> THEN 0
    ELSE (IF Head(bytes) = LF THEN 1 ELSE 0) + CountLF(Tail(bytes))

\* number of records of a JSONL file: its lines
RecordsIn(bytes) == IF bytes = <<>> THEN 0 ELSE 1 + CountLF(bytes)

\* C30: for every completed export, the content_hash of the provenance
\* manifest is "sha256:" followed by the sha256 digest of exactly the bytes
\* written to export_<id>.jsonl, the manifest's record_count is the number
\* of records in that file, and the hash of the manifest is recorded on the
\* export job.
C30_ExportProvenance ==
    \A id \in completed :
        /\ manifest_files[id].provenance.content_hash =
              [prefix |-> "sha256:", hexdigest |-> sha256(export_files[id])]
        /\ manifest_files[id].provenance.record_count =
              RecordsIn(export_files[id])
        /\ \E job \in export_jobs \cup pending_exports :
              /\ job.id = id
              /\ job.c2pa_manifest_hash = Some(sign_manifest(manifest_files[id]))

(***************************************************************************)
(* compute_quality_score as a function of the code snippet.                *)
(***************************************************************************)
\* snippet lengths around the two steps of the code component
ScoreSnippetLengths == {0, 1, 50, 51, 200}

\* TROUBLESHOOTING articles, the type given or defaulted
ScoreArticles ==
    [article_type : {"absent", "troubleshooting"}, sol_len : SolutionLengths,
     snippet_len : ScoreSnippetLengths, confidence : Confidences,
     ntags : TagCounts, diag_len : DiagnosisLengths,
     summary_len : SummaryLengths]

\* two articles that differ in the snippet only, the shorter snippet first
InitScore ==
    /\ WorkerInit
    /\ ClusterIdle
    /\ ProducerIdle
    /\ StorageIdle
    /\ FetcherIdle
    /\ AnonymizerIdle
    /\ \E a \in ScoreArticles, len \in ScoreSnippetLengths :
          /\ a.snippet_len < len
          /\ score_pair = <<a, [a EXCEPT !.snippet_len = len]>>
    /\ scores = None

ComputeScores ==
    /\ scores = None
    /\ scores' = Some(<<compute_quality_score(Some(score_pair[1])),
                        compute_quality_score(Some(score_pair[2]))>>)
    /\ UNCHANGED <<score_pair, worker_vars, cluster_vars, producer_vars,
                   storage_vars, fetcher_vars, anonymizer_vars>>

NextScore == ComputeScores

SpecScore == InitScore /\ [][NextScore]_vars

\* the step of the code component a snippet length falls in
CodeTier(len) == IF len > 50 THEN 2 ELSE IF len > 0 THEN 1 ELSE 0

MaxComments == 2

ACCEPTED_ANSWER == "[ACCEPTED ANSWER]"

\* texts as sequences of pieces; a user may type the marker themself
Bodies == {<<"text">>, <<ACCEPTED_ANSWER, "\n\n", "text">>}

\* comment number k of a discussion has node id k; the discussion has id 0
DiscussionComments ==
    UNION { { [k \in 1..n |-> [id |-> k, body |-> b[k], author |-> "bob",
                               created_at |-> k]] : b \in [1..n -> Bodies] }
            : n \in 0..MaxComments }

\* the accepted answer is one of the comments or a node not among them; its
\* author may be gone
DiscussionAnswers ==
    {None} \cup
    { Some([id |-> i, body |-> b, author |-> a, createdAt |-> 5])
        : i \in {1, 2, 9}, b \in Bodies, a \in {None, Some("expert")} }

Discussions ==
    [id : {0}, title : {"title"}, body : {<<"text">>}, author : {"alice"},
     created_at : {0}, comments : DiscussionComments,
     answer : DiscussionAnswers]

\* hashlib.sha256(username.encode()).hexdigest()
hash_username(username) == sha256(username)

\* variant: the accepted answer is appended whenever there is one
discussion_to_messages_always_append(d) ==
    LET op == [id |-> d.id, author_hash |-> hash_username(d.author),
               content |-> <<"# ", d.title, "\n\n">> \o d.body,
               timestamp |-> d.created_at, reply_to |-> None,
               mentions |-> <<>>]
        comments == [k \in 1..Len(d.comments) |->
                        [id |-> d.comments[k].id,
                         author_hash |-> hash_username(d.comments[k].author),
                         content |-> d.comments[k].body,
                         timestamp |-> d.comments[k].created_at,
                         reply_to |-> Some(d.id), mentions |-> <<>>]]
        answer == d.answer
    IN  IF answer # None
        THEN <<op>> \o comments \o
             <<[id |-> answer[1].id,
                author_hash |->
                    hash_username(IF answer[1].author = None THEN "ghost"
                                  ELSE answer[1].author[1]),
                content |-> <<ACCEPTED_ANSWER, "\n\n">> \o answer[1].body,
                timestamp |-> answer[1].createdAt,
                reply_to |-> Some(d.id), mentions |-> <<>>]>>
        ELSE <<op>> \o comments

discussion_to_messages(d) ==
    LET op == [id |-> d.id, author_hash |-> hash_username(d.author),
               content |-> <<"# ", d.title, "\n\n">> \o d.body,
               timestamp |-> d.created_at, reply_to |-> None,
               mentions |-> <<>>]
        comments == [k \in 1..Len(d.comments) |->
                        [id |-> d.comments[k].id,
                         author_hash |-> hash_username(d.comments[k].author),
                         content |-> d.comments[k].body,
                         timestamp |-> d.comments[k].created_at,
                         reply_to |-> Some(d.id), mentions |-> <<>>]]
        msgs == <<op>> \o comments
        answer == d.answer
    IN  IF answer # None /\ answer[1].id \notin {msgs[k].id : k \in 1..Len(msgs)}
        THEN msgs \o
             <<[id |-> answer[1].id,
                author_hash |->
                    hash_username(IF answer[1].author = None THEN "ghost"
                                  ELSE answer[1].author[1]),
                content |-> <<ACCEPTED_ANSWER, "\n\n">> \o answer[1].body,
                timestamp |-> answer[1].createdAt,
                reply_to |-> Some(d.id), mentions |-> <<>>]>>
        ELSE msgs

InitFetcher ==
    /\ WorkerInit
    /\ ClusterIdle
    /\ ProducerIdle
    /\ StorageIdle
    /\ ScoreIdle
    /\ AnonymizerIdle
    /\ discussion \in Discussions
    /\ discussion_messages = None

DiscussionToMessages ==
    /\ discussion_messages = None
    /\ discussion_messages' = Some(discussion_to_messages(discussion))
    /\ UNCHANGED <<discussion, worker_vars, cluster_vars, producer_vars,
                   storage_vars, score_vars, anonymizer_vars>>

NextFetcher == DiscussionToMessages

SpecFetcher == InitFetcher /\ [][NextFetcher]_vars

\* the content of a message begins with the marker
CarriesPrefix(m) == Len(m.content) >= 1 /\ m.content[1] = ACCEPTED_ANSWER

\* an answer exists whose id is not the id of the discussion or of a comment
AnswerIsNew(d) ==
    /\ d.answer # None
    /\ d.answer[1].id \notin
          {d.id} \cup {d.comments[k].id : k \in 1..Len(d.comments)}

\* the OP first, the comments in order, the new answer last with the prefix
ConvertedInOrder(d, msgs) ==
    /\ Len(msgs) = 1 + Len(d.comments) + (IF AnswerIsNew(d) THEN 1 ELSE 0)
    /\ msgs[1].id = d.id
    /\ msgs[1].author_hash = hash_username(d.author)
    /\ msgs[1].content = <<"# ", d.title, "\n\n">> \o d.body
    /\ msgs[1].reply_to = None
    /\ \A k \in 1..Len(d.comments) :
          /\ msgs[k + 1].id = d.comments[k].id
          /\ msgs[k + 1].content = d.comments[k].body
          /\ msgs[k + 1].reply_to = Some(d.id)
    /\ AnswerIsNew(d) =>
          /\ msgs[Len(msgs)].id = d.answer[1].id
          /\ msgs[Len(msgs)].content =
                <<ACCEPTED_ANSWER, "\n\n">> \o d.answer[1].body
          /\ msgs[Len(msgs)].reply_to = Some(d.id)

\* C32 as stated: the first message is the title-plus-body by the OP with
\* reply_to = null, each comment follows in order with reply_to equal to the
\* discussion id, the accepted answer is appended last with the prefix
\* exactly when an answer exists whose id is not already among the messages,
\* the batch has 1 + #comments + (0 or 1) messages, and at most one message
\* carries the prefix.
C32_PreThreadedBatch ==
    discussion_messages # None =>
        /\ ConvertedInOrder(discussion, discussion_messages[1])
        /\ Cardinality({k \in 1..Len(discussion_messages[1]) :
                           CarriesPrefix(discussion_messages[1][k])}) <= 1

\* C32: the first message is the title-plus-body by the OP with reply_to =
\* null, each comment follows in order, its body unchanged, with reply_to
\* equal to the discussion id, the accepted answer is appended last with the
\* prefix exactly when an answer exists whose id is not already among the
\* messages, and the batch has 1 + #comments + (0 or 1) messages; the
\* conversion adds the prefix to that message only, so another message
\* carries it only when the comment's own body begins with it.
C32_PrefixAddedOnce ==
    discussion_messages # None =>
        /\ ConvertedInOrder(discussion, discussion_messages[1])
        /\ \A k \in 1..Len(discussion.comments) :
              CarriesPrefix(discussion_messages[1][k + 1])
                 <=> (discussion.comments[k].body[1] = ACCEPTED_ANSWER)
        /\ ~CarriesPrefix(discussion_messages[1][1])

\* a discussion with two comments and an answer that is none of them was
\* converted: four messages, the last one with the prefix
C32_Witness ==
    /\ discussion_messages # None
    /\ Len(discussion.comments) = 2
    /\ AnswerIsNew(discussion)
    /\ Len(discussion_messages[1]) = 4
    /\ CarriesPrefix(discussion_messages[1][4])

(***************************************************************************)
(* anonymize on texts that are IPv4 addresses (api/services/anonymizer.py). *)
(* A text is a sequence of characters; a replacement such as [IP] is one   *)
(* element, which is neither a digit nor a word character at its edges.    *)
(***************************************************************************)
DigitChars == {"0", "1", "2", "3", "4", "5", "6", "7", "8", "9"}
SepChars == {"-", ".", " "}

IsDigit(t, p) == p \in 1..Len(t) /\ t[p] \in DigitChars

\* \b between positions p - 1 and p (texts hold no letters or underscores)
WordBoundary(t, p) == IsDigit(t, p - 1) # IsDigit(t, p)

\* \d{k} at p
Run(t, p, k) == \A j \in p..(p + k - 1) : IsDigit(t, j)

\* the result of the first alternative that succeeds (0: none does)
FirstNonZero(r) ==
    IF \E i \in 1..Len(r) : r[i] # 0
    THEN r[CHOOSE i \in 1..Len(r) : r[i] # 0 /\ \A j \in 1..(i - 1) : r[j] = 0]
    ELSE 0

\* where matching goes on after an optional character of the set at p:
\* behind it first (greedy), then at p
OptChar(t, p, set) ==
    IF p \in 1..Len(t) /\ t[p] \in set THEN <<p + 1, p>> ELSE <<p>>

\* _IPV4_RE. The ends an octet at p can have, in the order the alternatives
\* 25[0-5] | 2[0-4]\d | [01]?\d\d? are tried
OctetEnds(t, p) ==
    LET lead == p \in 1..Len(t) /\ t[p] \in {"0", "1"}
    IN  SelectSeq(
          <<IF Run(t, p, 3) /\ t[p] = "2" /\ t[p + 1] = "5"
                 /\ t[p + 2] \in {"0", "1", "2", "3", "4", "5"}
            THEN p + 3 ELSE 0,
            IF Run(t, p, 3) /\ t[p] = "2"
                 /\ t[p + 1] \in {"0", "1", "2", "3", "4"}
            THEN p + 3 ELSE 0,
            IF lead /\ Run(t, p, 3) THEN p + 3 ELSE 0,
            IF lead /\ Run(t, p, 2) THEN p + 2 ELSE 0,
            IF Run(t, p, 2) THEN p + 2 ELSE 0,
            IF Run(t, p, 1) THEN p + 1 ELSE 0>>,
          LAMBDA e : e # 0)

\* n more octets from p, a dot between them and \b behind the last
RECURSIVE ipv4_octets(_, _, _)
ipv4_octets(t, p, n) ==
    LET ends == OctetEnds(t, p)
    IN  FirstNonZero(
          [i \in 1..Len(ends) |->
              IF n = 1
              THEN (IF WordBoundary(t, ends[i]) THEN ends[i] ELSE 0)
              ELSE IF ends[i] \in 1..Len(t) /\ t[ends[i]] = "."
                   THEN ipv4_octets(t, ends[i] + 1, n - 1)
                   ELSE 0])

\* the position behind the match of _IPV4_RE that starts at p (0: no match)
ipv4_match(t, p) == IF WordBoundary(t, p) THEN ipv4_octets(t, p, 4) ELSE 0

\* _PHONE_RE, from its tail: \d{3,4}(?!\d)
phone_last(t, p) ==
    FirstNonZero(<<IF Run(t, p, 4) /\ ~IsDigit(t, p + 4) THEN p + 4 ELSE 0,
                   IF Run(t, p, 3) /\ ~IsDigit(t, p + 3) THEN p + 3 ELSE 0>>)

\* [-.\s]?\d{3,4}(?!\d)
phone_sep_last(t, p) ==
    LET o == OptChar(t, p, SepChars)
    IN  FirstNonZero([i \in 1..Len(o) |-> phone_last(t, o[i])])

\* \d{3,4}[-.\s]?\d{3,4}(?!\d)
phone_local(t, p) ==
    FirstNonZero(<<IF Run(t, p, 4) THEN phone_sep_last(t, p + 4) ELSE 0,
                   IF Run(t, p, 3) THEN phone_sep_last(t, p + 3) ELSE 0>>)

phone_sep_local(t, p) ==
    LET o == OptChar(t, p, SepChars)
    IN  FirstNonZero([i \in 1..Len(o) |-> phone_local(t, o[i])])

\* \)?[-.\s]? and the rest
phone_after_area(t, p) ==
    LET o == OptChar(t, p, {")"})
    IN  FirstNonZero([i \in 1..Len(o) |-> phone_sep_local(t, o[i])])

\* \d{2,4} and the rest
phone_area_digits(t, p) ==
    FirstNonZero(<<IF Run(t, p, 4) THEN phone_after_area(t, p + 4) ELSE 0,
                   IF Run(t, p, 3) THEN phone_after_area(t, p + 3) ELSE 0,
                   IF Run(t, p, 2) THEN phone_after_area(t, p + 2) ELSE 0>>)

\* (?:\(?\d{2,4}\)?[-.\s]?) and the rest
phone_area(t, p) ==
    LET o == OptChar(t, p, {"("})
    IN  FirstNonZero([i \in 1..Len(o) |-> phone_area_digits(t, o[i])])

phone_sep_area(t, p) ==
    LET o == OptChar(t, p, SepChars)
    IN  FirstNonZero([i \in 1..Len(o) |-> phone_area(t, o[i])])

\* \d{1,3}[-.\s]? and the rest
phone_country_digits(t, p) ==
    FirstNonZero(<<IF Run(t, p, 3) THEN phone_sep_area(t, p + 3) ELSE 0,
                   IF Run(t, p, 2) THEN phone_sep_area(t, p + 2) ELSE 0,
                   IF Run(t, p, 1) THEN phone_sep_area(t, p + 1) ELSE 0>>)

\* \+?\d{1,3}[-.\s]? and the rest
phone_country(t, p) ==
    LET o == OptChar(t, p, {"+"})
    IN  FirstNonZero([i \in 1..Len(o) |-> phone_country_digits(t, o[i])])

\* the position behind the match of _PHONE_RE that starts at p (0: no
\* match): (?<!\d), then with the optional country group, then without
phone_match(t, p) ==
    IF IsDigit(t, p - 1) THEN 0
    ELSE FirstNonZero(<<phone_country(t, p), phone_area(t, p)>>)

\* the pattern registry, in order
PATTERNS ==
    <<[pii_type |-> "URL_AUTH", replacement |-> "[URL_REDACTED]"],
      [pii_type |-> "EMAIL", replacement |-> "[EMAIL]"],
      [pii_type |-> "IPV4", replacement |-> "[IP]"],
      [pii_type |-> "IPV6", replacement |-> "[IP]"],
      [pii_type |-> "PHONE", replacement |-> "[PHONE]"],
      [pii_type |-> "FILE_PATH", replacement |-> "[PATH]"],
      [pii_type |-> "API_KEY", replacement |-> "[API_KEY]"],
      [pii_type |-> "DISCORD_MENTION", replacement |-> "[USER]"]>>

\* the match of a pattern starting at p. Every pattern but IPV4 and PHONE
\* needs a character (a colon, an at sign, a slash or a letter) that the
\* texts of this model do not hold, so it matches nowhere.
match_at(pii_type, t, p) ==
    CASE pii_type = "IPV4" -> ipv4_match(t, p)
      [] pii_type = "PHONE" -> phone_match(t, p)
      [] OTHER -> 0

\* pattern.finditer(result): the non-overlapping matches from the left
RECURSIVE finditer(_, _, _)
finditer(pii_type, t, p) ==
    IF p > Len(t) THEN <<>>
    ELSE LET e == match_at(pii_type, t, p)
         IN  IF e # 0
             THEN <<[start |-> p, end |-> e]>> \o finditer(pii_type, t, e)
             ELSE finditer(pii_type, t, p + 1)

\* original.replace(" ", "").replace("-", "")
strip_phone(original) == SelectSeq(original, LAMBDA c : c \notin {" ", "-"})

starts_with_127(original) ==
    Len(original) >= 4 /\ SubSeq(original, 1, 4) = <<"1", "2", "7", ".">>

\* the two `continue` conditions of the replacement loop, as written
skipped(pii_type, original) ==
    \/ pii_type = "PHONE" /\ Len(strip_phone(original)) < 7
    \/ (pii_type = "IPV4" /\ starts_with_127(original))
          \/ original = <<"0", ".", "0", ".", "0", ".", "0">>

\* the replacement loop over matches[1..k] in reverse order; positions are
\* 1-based here and 0-based in the redaction records
RECURSIVE replace_matches(_, _, _, _, _)
replace_matches(pattern, matches, k, text, reds) ==
    IF k = 0 THEN [text |-> text, redactions |-> reds]
    ELSE LET m == matches[k]
             original == SubSeq(text, m.start, m.end - 1)
         IN  IF skipped(pattern.pii_type, original)
             THEN replace_matches(pattern, matches, k - 1, text, reds)
             ELSE replace_matches(
                     pattern, matches, k - 1,
                     SubSeq(text, 1, m.start - 1) \o <<pattern.replacement>>
                        \o SubSeq(text, m.end, Len(text)),
                     Append(reds, [type |-> pattern.pii_type,
                                   original |-> original,
                                   replacement |-> pattern.replacement,
                                   start |-> m.start - 1,
                                   end |-> m.end - 1]))

\* octets as written in an address
FirstOctets == {<<"1", "2", "7">>, <<"1", "0">>, <<"0">>}
Octets == {<<"0">>, <<"1">>, <<"2", "7">>, <<"1", "0", "0">>, <<"2", "5", "5">>}
Addresses ==
    {a \o <<".">> \o b \o <<".">> \o c \o <<".">> \o d :
        a \in FirstOctets, b \in Octets, c \in Octets, d \in Octets}

InitAnonymize ==
    /\ WorkerInit
    /\ ClusterIdle
    /\ ProducerIdle
    /\ StorageIdle
    /\ ScoreIdle
    /\ FetcherIdle
    /\ anon_text \in Addresses
    /\ anon_pass = 0
    /\ anon_result = anon_text
    /\ redactions = <<>>

\* one iteration of `for pii_type, pattern, replacement in _PATTERNS`
PatternPass ==
    /\ anon_pass < Len(PATTERNS)
    /\ LET pattern == PATTERNS[anon_pass + 1]
           matches == finditer(pattern.pii_type, anon_result, 1)
           out == replace_matches(pattern, matches, Len(matches), anon_result,
                                  redactions)
       IN  /\ anon_result' = out.text
           /\ redactions' = out.redactions
    /\ anon_pass' = anon_pass + 1
    /\ UNCHANGED <<anon_text, worker_vars, cluster_vars, producer_vars,
                   storage_vars, score_vars, fetcher_vars>>

NextAnonymize == PatternPass

SpecAnonymize == InitAnonymize /\ [][NextAnonymize]_vars

\* a loopback address, 127.x.y.z, or 0.0.0.0
IsLoopback(t) ==
    starts_with_127(t) \/ t = <<"0", ".", "0", ".", "0", ".", "0">>

\* C33: loopback IPv4 addresses (any 127.x.y.z) and 0.0.0.0 survive
\* anonymize unchanged: after all pattern passes have run the address is
\* still in the output and no redaction covers any part of it.
C33_LoopbackSurvives ==
    (anon_pass = Len(PATTERNS) /\ IsLoopback(anon_text)) =>
        (anon_result = anon_text /\ redactions = <<>>)

(***************************************************************************)
(* Termination of a graph run.                                             *)
(***************************************************************************)
\* positions inside graph.invoke
GraphPositions ==
    {"disentangle", "router", "route_after_classification", "evaluator",
     "route_after_evaluation", "compiler", "quality_gate",
     "route_after_quality"}

\* an upper bound on the steps a run has left: three steps per compiler
\* and quality_gate round that may still come, and the steps before them
StepsLeft ==
    CASE pc = "disentangle" -> 14
      [] pc = "router" -> 13
      [] pc = "route_after_classification" -> 12
      [] pc = "evaluator" -> 11
      [] pc = "route_after_evaluation" -> 10
      [] pc = "compiler" -> 3 * (MAX_RETRIES - compiler_calls)
      [] pc = "quality_gate" -> 3 * (MAX_RETRIES - compiler_calls) + 2
      [] pc = "route_after_quality" -> 3 * (MAX_RETRIES - compiler_calls) + 1
      [] OTHER -> 0

\* C34: every extraction-graph run terminates. In a run started with
\* retry_count = 0 every node that is entered can run (its thread exists),
\* every step of a node that returns brings END nearer, so END is reached
\* after at most 14 steps; disentangle, router and evaluator are entered
\* once and in this order, and compiler and quality_gate run at most three
\* rounds. (A node that raises instead of returning leaves the graph
\* without END; only the evaluator does.)
C34_RunTerminates ==
    /\ [](/\ evaluator_calls <= 1
          /\ compiler_calls <= MAX_RETRIES
          /\ StepsLeft >= 0
          /\ pc \in {"router", "evaluator", "compiler"}
                => current_thread_idx + 1 \in DOMAIN threads)
    /\ [][ /\ pc \in GraphPositions =>
                /\ StepsLeft' < StepsLeft
                /\ pc' \in GraphPositions \cup {"end", "raised"}
           /\ pc' = "disentangle" => pc \notin GraphPositions
           /\ pc' = "router" => pc = "disentangle"
           /\ pc' = "evaluator" => pc = "route_after_classification"
           /\ pc' = "compiler" =>
                 pc \in {"route_after_evaluation", "route_after_quality"}
           /\ pc' = "raised" => pc \in {"evaluator", "raised"} ]_vars

\* a run reached END after three compiler and quality_gate rounds
C34_Witness ==
    /\ pc = "end"
    /\ evaluator_calls = 1
    /\ compiler_calls = 3
    /\ retry_count = 3
    /\ last_node = "quality_gate"

(***************************************************************************)
(* Delivery of the buffered messages by the producer.                      *)
(***************************************************************************)
\* C35: each message published to a channel is dispatched in exactly one
\* batch: under any interleaving of concurrent publish calls (no restart of
\* the bot), no message is in two dispatched batches, and two overlapping
\* flushes never dispatch the same stream contents twice.
C35_DispatchedOnce ==
    restarts = 0 =>
        \A i, j \in DOMAIN dispatched :
            i < j => EntryIds(dispatched[i]) \cap EntryIds(dispatched[j]) = {}

\* C36: no message is lost by a flush. An entry leaves the stream only
\* after it was included in a batch whose dispatch succeeded; when the
\* dispatch raises, the stream and the counter are left as they are and
\* publish does not report the batch as triggered.
C36_NoLossOnFailedDispatch ==
    [][ /\ \A k \in 1..Len(stream) :
              stream[k].id \notin EntryIds(stream') =>
                 \E i \in DOMAIN dispatched : stream[k].id \in EntryIds(dispatched[i])
        /\ \A c \in Coros :
              (coro[c].pc = "dispatch" /\ coro'[c].failed) =>
                 /\ stream' = stream
                 /\ counter' = counter
                 /\ coro'[c].result # Some(TRUE) ]_vars

(***************************************************************************)
(* Isolation of batches, the score of the final article, the thread read.  *)
(***************************************************************************)
\* C37: distinct batches are processed in isolation: also for two batches
\* of the same source_type and channel_id started within the same
\* wall-clock second, the messages the graph sees for a batch are exactly
\* that batch's own filtered, anonymized messages and never include
\* messages checkpointed by another batch.
C37_BatchIsolation ==
    pc \in GraphPositions \cup {"end", "raised"} =>
        /\ messages = input_messages
        /\ prior_messages = <<>>

\* C38: whenever a graph run ends with quality_score >= 0.70,
\* compiled_article is non-null and quality_score is the score of exactly
\* that compiled_article, the last one compiled; it is never a value left
\* from an earlier attempt or an earlier article.
C38_ScoreOfFinalArticle ==
    (pc \in {"end", "done"} /\ quality_score >= QUALITY_THRESHOLD) =>
        /\ compiled_article # None
        /\ quality_score = compute_quality_score(compiled_article)
        /\ last_node = "quality_gate"

\* the second task execution ended with a passing article at its second
\* attempt, after a first attempt that failed
C38_Witness ==
    /\ pc = "end"
    /\ batch_no = 2
    /\ compiler_calls = 2
    /\ retry_count = 1
    /\ quality_score >= QUALITY_THRESHOLD
    /\ compiled_article # None

\* C39: current_thread_idx is 0 in every state of every run, so router,
\* evaluator and compiler only ever read threads[0], the largest thread;
\* at most one article-persistence job is enqueued per batch (none by an
\* execution that raises and is retried), and router is never invoked on
\* an empty threads list when the batch has at least one message.
C39_FirstThreadOnly ==
    /\ current_thread_idx = 0
    /\ Len(enqueued) <= 1
    /\ (pc \in {"raised", "retry", "failed"} => enqueued = <<>>)
    /\ (pc \in {"router", "evaluator", "compiler"} /\ messages # <<>>) =>
          /\ threads # <<>>
          /\ \A t \in DOMAIN threads : Len(threads[1]) >= Len(threads[t])

\* the compiler read the only thread of two messages of a batch of three,
\* and the execution enqueued its one job
C39_Witness ==
    /\ pc = "done"
    /\ Len(enqueued) = 1
    /\ compiler_calls >= 1
    /\ Len(messages) = 3
    /\ Len(threads) = 1
    /\ Len(threads[1]) = 2

(***************************************************************************)
(* The end of an export job.                                               *)
(***************************************************************************)
\* GET /datasets/{export_id}/download: the status of the answer, read from
\* the committed rows
download_export(export_id) ==
    LET found == {row \in export_jobs : row.id = export_id}
    IN  IF found = {} THEN 404
        ELSE IF \E row \in found : row.file_path = "" THEN 409
        ELSE 200

\* export_dataset has run for the job: it was triggered, and its task is
\* neither waiting at the broker nor being executed
TaskRan(id) ==
    /\ id \in 1..export_no
    /\ \A task \in export_queue : task.export_id # id
    /\ (export_frame # <<>> => export_frame[1].export_id # id)

\* C40: every export job leaves the pending state: after export_dataset
\* has run for a job (no execution of the model raises), the job record
\* carries a non-empty file_path, record_count and manifest hash, and its
\* download no longer answers 409; this includes a job whose selection
\* matches no article.
C40_JobLeavesPending ==
    \A job \in export_jobs :
        TaskRan(job.id) =>
            /\ job.file_path # ""
            /\ job.record_count > 0
            /\ job.c2pa_manifest_hash # None
            /\ download_export(job.id) # 409

============================================================================
